---- MODULE Spec2Model ----
(***************************************************************************)
(* autolocalhost: the reconciliation engine (src/docker/mod.rs) and its    *)
(* collaborators, as a state machine.                                      *)
(*                                                                         *)
(* Text files are sequences of tokens: a token is one character of user    *)
(* text, a newline, or one of the fixed strings the program writes (the    *)
(* two block markers, the "127.0.0.1 " prefix, a domain name).             *)
(***************************************************************************)
EXTENDS Integers, Sequences, FiniteSets, TLC

VARIABLES
    \* docker/mod.rs, connect_docker
    connecting,         \* where connect_docker stands, its attempt_count, its sleep
    \* docker/mod.rs, monitor_containers: the listener (main) task
    main_pc,            \* where monitor_containers stands
    event,              \* the event taken from the stream and being handled
    active_containers,  \* the listener's own map id -> ContainerInfo
    shared_containers,  \* the map behind active_containers_arc
    debounce,           \* DebounceState
    shutdown_sent,      \* main.rs: the Ctrl+C task has sent on the shutdown channel
    \* the spawned debounce task
    flush_pc,           \* where the debounce task stands
    sleep_left,         \* seconds left of its sleep(1 s)
    \* update_configuration, run by the listener at startup or by the debounce task
    pass_pc,            \* the step the running pass is at
    pass_order,         \* running_containers of the running pass, as ids in Vec order
    pass_log,           \* history: the collaborators the running pass has called so far
    \* what the passes write
    hosts,              \* content of the system hosts file
    files,              \* the files of the CA and certificate directories
    pem,                \* CertSpec: the keys in the PEM files of those directories
    nginx_conf,         \* the generated nginx.conf
    proxy,              \* the managed NGINX container
    faults,             \* I/O failures the environment may still cause
    runtime,            \* WorldSpec: the state of the labelled containers in the
                        \* container runtime, and the events it has sent to the listener
    \* history
    prev_hosts,         \* HostsSpec: the content the last update read
    last_domains,       \* HostsSpec: the domain list of the last update
    applied,            \* HostsSpec: an update has been applied
    since_pass,         \* seconds since the last pass started, capped
    burst,              \* ids inserted by the current burst of start events
    passes_after,       \* passes started since the last recorded change, capped
    call                \* the last call of a function under study, its input and its
                        \* result; in the engine, the inventory of the startup scan

hosts_history == <<prev_hosts, last_domains, applied, call>>

hosts_vars == <<hosts, prev_hosts, last_domains, applied, call>>

engine_vars ==
    <<connecting, main_pc, event, active_containers, shared_containers, debounce, shutdown_sent, flush_pc,
      sleep_left, pass_pc, pass_order, pass_log, files, pem, nginx_conf, proxy, faults,
      runtime, since_pass, burst, passes_after>>

vars ==
    <<connecting, main_pc, event, active_containers, shared_containers, debounce, shutdown_sent, flush_pc,
      sleep_left, pass_pc, pass_order, pass_log, hosts, files, pem, nginx_conf, proxy, faults, runtime,
      prev_hosts, last_domains, applied, since_pass, burst, passes_after, call>>

----------------------------------------------------------------------------
(* Bounds of the model. *)

\* most lines of user text before and after the block in an initial hosts file
MaxLines == 1
\* longest domain list handed to the hosts file manager
MaxDomains == 2
\* cap of the history counter passes_after
MaxPassCount == 2
\* I/O failures the environment may cause in one run of the engine
MaxFaults == 1
\* most tokens of a mappings string
MaxTokens == 2
\* cap of attempt_count of connect_docker
MaxAttempts == 7
\* most events waiting in the event stream
MaxStream == 1

----------------------------------------------------------------------------
(* Sequence helpers. *)

Range(s) == {s[i] : i \in DOMAIN s}

SeqsUpTo(S, n) == UNION {[1..k -> S] : k \in 0..n}

Drop(s, k) == SubSeq(s, k + 1, Len(s))

\* Option and Result values: <<>> is None or Err, <<v>> is Some(v) or Ok(v)
None == <<>>
Some(v) == <<v>>

RECURSIVE Flatten(_)
Flatten(ss) == IF ss = <<>> THEN <<>> ELSE Head(ss) \o Flatten(Tail(ss))

----------------------------------------------------------------------------
(* hosts/hosts_file_manager.rs *)

NL == "\n"
SP == " "
block_start == "# BEGIN MANAGED BLOCK - DO NOT EDIT MANUALLY # kz.byte0.autolocalhost"
block_end == "# END MANAGED BLOCK - DO NOT EDIT MANUALLY # kz.byte0.autolocalhost"
ENTRY_PREFIX == "127.0.0.1 "

\* str::trim().is_empty(): the line holds whitespace only
IsBlank(line) == \A i \in DOMAIN line : line[i] = SP

\* str::split('\n'): k newlines give k + 1 pieces
RECURSIVE SplitNL(_)
SplitNL(s) ==
    IF \A i \in DOMAIN s : s[i] # NL THEN <<s>>
    ELSE LET k == CHOOSE i \in DOMAIN s : s[i] = NL /\ \A j \in 1..(i - 1) : s[j] # NL
         IN  <<SubSeq(s, 1, k - 1)>> \o SplitNL(Drop(s, k))

\* str::lines(): the pieces, without the empty piece after a final newline
Lines(s) ==
    LET p == SplitNL(s)
    IN  IF p[Len(p)] = <<>> THEN SubSeq(p, 1, Len(p) - 1) ELSE p

\* [&str]::join("\n")
RECURSIVE JoinNL(_)
JoinNL(ls) ==
    IF ls = <<>> THEN <<>>
    ELSE IF Len(ls) = 1 THEN ls[1]
    ELSE ls[1] \o <<NL>> \o JoinNL(Tail(ls))

\* the first loop of normalize_content: skip a blank line that follows a blank line
RECURSIVE CollapseBlank(_, _)
CollapseBlank(ls, prev_was_empty) ==
    IF ls = <<>> THEN <<>>
    ELSE LET is_empty == IsBlank(Head(ls))
         IN  IF is_empty /\ prev_was_empty
             THEN CollapseBlank(Tail(ls), prev_was_empty)
             ELSE <<Head(ls)>> \o CollapseBlank(Tail(ls), is_empty)

\* the second loop of normalize_content: pop blank lines off the end
RECURSIVE StripTrailingBlank(_)
StripTrailingBlank(ls) ==
    IF ls # <<>> /\ IsBlank(ls[Len(ls)])
    THEN StripTrailingBlank(SubSeq(ls, 1, Len(ls) - 1))
    ELSE ls

normalize_content(content) ==
    LET normalized_lines == StripTrailingBlank(CollapseBlank(Lines(content), FALSE))
    IN  IF normalized_lines = <<>> THEN <<>>
        ELSE JoinNL(normalized_lines) \o <<NL>>

RECURSIVE EntryLines(_)
EntryLines(domains) ==
    IF domains = <<>> THEN <<>>
    ELSE <<ENTRY_PREFIX, Head(domains), NL>> \o EntryLines(Tail(domains))

create_managed_block(domains) ==
    <<block_start, NL>> \o EntryLines(domains) \o <<block_end>>

(* The regex \n*BEGIN[\s\S]*?END\n* , leftmost match: it starts at the first  *)
(* BEGIN marker that has an END marker after it, takes the newlines right    *)
(* before that BEGIN, runs lazily to the first END after it and takes the    *)
(* newlines right after that END.                                            *)
Positions(content, tok) == {i \in DOMAIN content : content[i] = tok}

Min(S) == CHOOSE m \in S : \A n \in S : m <= n

MatchBegin(content) == Min(Positions(content, block_start))

MatchEnd(content) ==
    Min({e \in Positions(content, block_end) : e > MatchBegin(content)})

\* Regex::is_match
is_match(content) ==
    /\ Positions(content, block_start) # {}
    /\ \E e \in Positions(content, block_end) : e > MatchBegin(content)

\* first position of the match: the run of newlines before BEGIN belongs to it
MatchFrom(content) ==
    LET b == MatchBegin(content)
    IN  Min({p \in 1..b : \A j \in p..(b - 1) : content[j] = NL})

\* last position of the match: the run of newlines after END belongs to it
MatchTo(content) ==
    LET e == MatchEnd(content)
        n == Len(content)
    IN  CHOOSE q \in e..n :
            /\ \A j \in (e + 1)..q : content[j] = NL
            /\ (q = n \/ content[q + 1] # NL)

\* Regex::replace: the first match is replaced, the text around it is kept
replace(content, rep) ==
    SubSeq(content, 1, MatchFrom(content) - 1) \o rep \o Drop(content, MatchTo(content))

\* a manager that never looks for the block it wrote: it appends each time
update_block_appending(content, domains) ==
    LET new_block == IF domains # <<>> THEN create_managed_block(domains) ELSE <<>>
        normalized_content == normalize_content(content)
    IN  IF new_block = <<>> THEN normalized_content
        ELSE IF normalized_content = <<>> THEN new_block
        ELSE normalized_content \o <<NL>> \o new_block

update_block_in_content(content, domains) ==
    LET new_block == IF domains # <<>> THEN create_managed_block(domains) ELSE <<>>
    IN  IF is_match(content)
        THEN normalize_content(replace(content, new_block))
        ELSE IF new_block # <<>>
        THEN LET normalized_content == normalize_content(content)
             IN  IF normalized_content = <<>> THEN new_block
                 ELSE IF normalized_content[Len(normalized_content)] = NL
                 THEN normalized_content \o <<NL>> \o new_block
                 ELSE normalized_content \o <<NL, NL>> \o new_block
        ELSE normalize_content(content)

\* the filter at the head of update_managed_block
FilterLocalhost(domains) == SelectSeq(domains, LAMBDA d : d # "localhost")

\* update_managed_block: the content written back for the content read
update_managed_block(content, domains) ==
    update_block_in_content(content, FilterLocalhost(domains))

----------------------------------------------------------------------------
(* The hosts files and domain lists the hosts file manager is tried on.     *)

DomainNames == {"a.test", "b.test", "localhost"}

\* update_configuration never hands over a domain twice (it aborts on a duplicate)
DomainLists ==
    {ds \in SeqsUpTo(DomainNames, MaxDomains) :
        \A i, j \in DOMAIN ds : ds[i] = ds[j] => i = j}

\* the lines of user text: two entries, an empty line, a line of whitespace
UserLines == {<<"x">>, <<"y">>, <<>>, <<SP>>}

\* up to MaxLines lines of user text, each ended by a newline
UserTexts == {Flatten([i \in DOMAIN ls |-> ls[i] \o <<NL>>]) : ls \in SeqsUpTo(UserLines, MaxLines)}

\* a hosts file: user text, at most one managed block on lines of its own, user text
HostsFiles ==
    LET blocks == {<<>>, create_managed_block(<<"a.test">>) \o <<NL>>}
    IN  {pre \o blk \o post : pre \in UserTexts, blk \in blocks, post \in UserTexts}


----------------------------------------------------------------------------
(* ssl/certificate_generator.rs: the certificate files, by name. *)

\* a file is named by its stem (the CA files: the directory) and its extension
CA_FILES == {<<"ca", "localCA.crt">>, <<"ca", "localCA.key">>}

DomainCertFiles(domain) ==
    {<<domain, "crt">>, <<domain, "key">>, <<domain, "fullchain.crt">>}

\* a generator that never finds a persisted CA
has_ca_files_never(fs) == FALSE

has_ca_files(fs) == CA_FILES \subseteq fs

has_domain_certs(fs, domain) == DomainCertFiles(domain) \subseteq fs

(* generate_certificates. Its file-system operations are create_dir_all and  *)
(* then the fs::write calls in the order of the code; io_ok is the number   *)
(* of them that succeed before one fails: 0, create_dir_all fails; k > 0,   *)
(* the k-th write fails if the call gets that far (a CA that cannot be      *)
(* created or loaded fails at the write it would be due at); NoFailure,     *)
(* nothing fails.                                                           *)

\* the fs::write calls of a call that gets past the has_domain_certs test
WriteOrder(fs, domain) ==
    (IF has_ca_files(fs) THEN <<>> ELSE <<<<"ca", "localCA.crt">>, <<"ca", "localCA.key">>>>)
        \o <<<<domain, "crt">>, <<domain, "key">>, <<domain, "fullchain.crt">>>>

NoFailure == Cardinality(CA_FILES) + Cardinality(DomainCertFiles("")) + 1

CertOutcomes == 0..NoFailure

\* an issuance that writes the leaf files without looking for them first
WritesWithoutCheck(fs, domain, io_ok) ==
    IF io_ok = 0 THEN {}
    ELSE LET order == WriteOrder(fs, domain)
         IN  {order[i] : i \in {j \in DOMAIN order : j < io_ok}}

\* the files the fs::write calls of generate_certificates write
CertWrites(fs, domain, io_ok) ==
    IF io_ok = 0 THEN {}
    ELSE IF has_domain_certs(fs, domain) THEN {}
    ELSE LET order == WriteOrder(fs, domain)
         IN  {order[i] : i \in {j \in DOMAIN order : j < io_ok}}

generate_certificates(fs, domain, io_ok) == fs \cup CertWrites(fs, domain, io_ok)

\* the Result of generate_certificates: Ok when no operation it got to failed
generate_certificates_ok(fs, domain, io_ok) ==
    /\ io_ok > 0
    /\ has_domain_certs(fs, domain) \/ io_ok > Len(WriteOrder(fs, domain))

\* no call of a function under study yet
NoCall == [op |-> "none"]

----------------------------------------------------------------------------
(* docker/container_info.rs *)

Ids == {"c1", "c2"}

Port(e, i) == [external |-> e, internal |-> i]

(* The labels of the containers of the model: both claim the same domain,   *)
(* c1 with TLS.                                                             *)
Labels ==
    [id \in Ids |->
        IF id = "c1"
        THEN [domain |-> "a.test", ports |-> <<Port(80, 8080)>>,
              ssl_ports |-> <<Port(443, 8443)>>]
        ELSE [domain |-> "a.test", ports |-> <<Port(81, 3000)>>,
              ssl_ports |-> <<>>]]

ContainerInfo(id, is_running) ==
    [id |-> id, name |-> id, is_running |-> is_running,
     domain |-> Labels[id].domain, ports |-> Labels[id].ports,
     ssl_ports |-> Labels[id].ssl_ports]

\* from_container: Err (<<>>), or Ok (<<info>>) with the state the runtime reports
from_container(id) == {<<>>} \cup {<<ContainerInfo(id, r)>> : r \in BOOLEAN}

----------------------------------------------------------------------------
(* utils/port_mapping.rs. A string is the sequence of its characters.      *)

U16_MAX == 65535

Digits == <<"0", "1", "2", "3", "4", "5", "6", "7", "8", "9">>

IsDigit(c) == c \in Range(Digits)

DigitValue(c) == (CHOOSE i \in DOMAIN Digits : Digits[i] = c) - 1

\* the digit loop of u16::from_str: Err on a character that is no digit and on
\* a value that does not fit in 16 bits
RECURSIVE ParseDigits(_, _)
ParseDigits(s, acc) ==
    IF s = <<>> THEN Some(acc)
    ELSE IF ~IsDigit(Head(s)) THEN None
    ELSE LET v == acc * 10 + DigitValue(Head(s))
         IN  IF v > U16_MAX THEN None ELSE ParseDigits(Tail(s), v)

\* str::parse::<u16>(): an optional "+", then one digit or more
parse_u16(s) ==
    IF s = <<>> THEN None
    ELSE IF Len(s) = 1 /\ Head(s) \in {"+", "-"} THEN None
    ELSE IF Head(s) = "+" THEN ParseDigits(Tail(s), 0)
    ELSE ParseDigits(s, 0)

RECURSIVE trim_start(_)
trim_start(s) == IF s # <<>> /\ Head(s) = SP THEN trim_start(Tail(s)) ELSE s

RECURSIVE trim_end(_)
trim_end(s) ==
    IF s # <<>> /\ s[Len(s)] = SP THEN trim_end(SubSeq(s, 1, Len(s) - 1)) ELSE s

\* str::trim()
trim(s) == trim_end(trim_start(s))

\* str::contains(char)
contains(s, c) == \E i \in DOMAIN s : s[i] = c

\* str::split(char): the pieces between the separators, empty pieces included
RECURSIVE split(_, _)
split(s, sep) ==
    IF ~contains(s, sep) THEN <<s>>
    ELSE LET k == CHOOSE i \in DOMAIN s : s[i] = sep /\ \A j \in 1..(i - 1) : s[j] # sep
         IN  <<SubSeq(s, 1, k - 1)>> \o split(Drop(s, k), sep)

validate_port(port_str) ==
    LET port == parse_u16(trim(port_str))
    IN  IF port = None THEN None
        ELSE IF port[1] < 1 THEN None
        ELSE Some(port[1])

\* a parse_port_mapping that hands its two ports to PortMapping::new the wrong way round
parse_port_mapping_swapped(mapping_str) ==
    LET trimmed == trim(mapping_str)
    IN  IF trimmed = <<>> \/ Len(split(trimmed, ":")) > 2 THEN None
        ELSE LET parts == split(trimmed, ":")
                 external == validate_port(parts[1])
                 internal == validate_port(parts[Len(parts)])
             IN  IF external = None \/ internal = None THEN None
                 ELSE Some(Port(internal[1], external[1]))

parse_port_mapping(mapping_str) ==
    LET trimmed == trim(mapping_str)
    IN  IF trimmed = <<>> THEN None
        ELSE IF contains(trimmed, ":")
        THEN LET parts == split(trimmed, ":")
             IN  IF Len(parts) # 2 THEN None
                 ELSE LET external == validate_port(parts[1])
                          internal == validate_port(parts[2])
                      IN  IF external = None THEN None
                          ELSE IF internal = None THEN None
                          ELSE Some(Port(external[1], internal[1]))
        ELSE LET port == validate_port(trimmed)
             IN  IF port = None THEN None ELSE Some(Port(port[1], port[1]))

\* a loop that leaves out the tokens that do not parse
RECURSIVE MappingsLoopSkipping(_, _)
MappingsLoopSkipping(pieces, mappings) ==
    IF pieces = <<>> THEN Some(mappings)
    ELSE LET r == parse_port_mapping(Head(pieces))
         IN  MappingsLoopSkipping(Tail(pieces),
                                  IF r = None THEN mappings ELSE Append(mappings, r[1]))

\* the for loop of parse_port_mappings: the first Err ends it
RECURSIVE MappingsLoop(_, _)
MappingsLoop(pieces, mappings) ==
    IF pieces = <<>> THEN Some(mappings)
    ELSE LET r == parse_port_mapping(Head(pieces))
         IN  IF r = None THEN None
             ELSE MappingsLoop(Tail(pieces), Append(mappings, r[1]))

parse_port_mappings(mappings_str) ==
    IF mappings_str = <<>> THEN Some(<<>>)
    ELSE MappingsLoop(split(mappings_str, ","), <<>>)

(* The strings handed to the parser, built from their parts: a component is *)
(* a text with the integer it denotes (-1: none), a token is one component  *)
(* or several joined by ":", a mappings string is tokens joined by ",".     *)

\* the decimal notation of a natural number
RECURSIVE ToDecimal(_)
ToDecimal(n) ==
    IF n < 10 THEN <<Digits[n + 1]>>
    ELSE ToDecimal(n \div 10) \o <<Digits[(n % 10) + 1]>>

Component(n) == [text |-> ToDecimal(n), value |-> n]

RECURSIVE Join(_, _)
Join(texts, sep) ==
    IF texts = <<>> THEN <<>>
    ELSE IF Len(texts) = 1 THEN Head(texts)
    ELSE Head(texts) \o <<sep>> \o Join(Tail(texts), sep)

TokenText(token) == Join([i \in DOMAIN token |-> token[i].text], ":")

MappingsText(tokens) == Join([i \in DOMAIN tokens |-> TokenText(tokens[i])], ",")

----------------------------------------------------------------------------
(* HashMap<String, ContainerInfo> *)

EmptyMap == [i \in {} |-> "Err"]

contains_key(m, id) == id \in DOMAIN m

insert(m, id, v) == [i \in DOMAIN m \cup {id} |-> IF i = id THEN v ELSE m[i]]

\* a map that keeps the entry of a stopped container, marked as not running
remove_marking(m, id) == [m EXCEPT ![id].is_running = FALSE]

remove(m, id) == [i \in DOMAIN m \ {id} |-> m[i]]

\* the orders a HashMap can be iterated in
Orders(S) == {o \in [1..Cardinality(S) -> S] : \A i, j \in DOMAIN o : o[i] = o[j] => i = j}

----------------------------------------------------------------------------
(* docker/mod.rs: update_configuration *)

\* a pass without the is_running filter
TrackedIds(containers) == DOMAIN containers

\* .filter(|c| c.is_running)
RunningIds(containers) == {id \in DOMAIN containers : containers[id].is_running}

RECURSIVE Externals(_)
Externals(ports) ==
    IF ports = <<>> THEN {} ELSE {Head(ports).external} \cup Externals(Tail(ports))

\* one call of a collaborator, as a pass records it
Invoked(step, subject, ok) == [step |-> step, subject |-> subject, ok |-> ok]

(* The inner loop over container.ssl_ports: one issuance request per TLS    *)
(* port, an error is logged. io_ok gives, for each domain, the outcome of   *)
(* its issuances; st is the files and the list of the issuances so far.     *)
\* a loop over ssl_ports that leaves a failed issuance out of the log
RECURSIVE SslPortsLoopSilent(_, _, _, _)
SslPortsLoopSilent(ssl_ports, domain, st, io_ok) ==
    IF ssl_ports = <<>> THEN st
    ELSE SslPortsLoopSilent(
            Tail(ssl_ports), domain,
            IF domain # ""
            THEN [files |-> generate_certificates(st.files, domain, io_ok[domain]),
                  issued |-> IF generate_certificates_ok(st.files, domain, io_ok[domain])
                             THEN Append(st.issued, Invoked("cert", domain, TRUE))
                             ELSE st.issued]
            ELSE st,
            io_ok)

RECURSIVE SslPortsLoop(_, _, _, _)
SslPortsLoop(ssl_ports, domain, st, io_ok) ==
    IF ssl_ports = <<>> THEN st
    ELSE SslPortsLoop(
            Tail(ssl_ports), domain,
            IF domain # ""
            THEN [files |-> generate_certificates(st.files, domain, io_ok[domain]),
                  issued |-> Append(st.issued,
                                    Invoked("cert", domain,
                                            generate_certificates_ok(st.files, domain,
                                                                     io_ok[domain])))]
            ELSE st,
            io_ok)

\* a loop over running_containers that stops issuing at the first failed issuance
RECURSIVE ContainersLoopUntilFailure(_, _, _, _, _)
ContainersLoopUntilFailure(running, domains, external_ports, st, io_ok) ==
    IF running = <<>>
    THEN [err |-> FALSE, domains |-> domains, external_ports |-> external_ports,
          files |-> st.files, issued |-> st.issued]
    ELSE LET container == Head(running)
         IN  IF container.domain \in Range(domains)
             THEN [err |-> TRUE, domains |-> domains, external_ports |-> external_ports,
                   files |-> st.files, issued |-> st.issued]
             ELSE ContainersLoopUntilFailure(
                    Tail(running),
                    IF container.domain # "" THEN Append(domains, container.domain)
                                             ELSE domains,
                    external_ports \cup Externals(container.ports)
                                   \cup Externals(container.ssl_ports),
                    IF \E i \in DOMAIN st.issued : ~st.issued[i].ok THEN st
                    ELSE SslPortsLoop(container.ssl_ports, container.domain, st, io_ok),
                    io_ok)

(* The loop over running_containers: the duplicate check, the domain list,  *)
(* the external ports and the certificates, container by container.         *)
RECURSIVE ContainersLoop(_, _, _, _, _)
ContainersLoop(running, domains, external_ports, st, io_ok) ==
    IF running = <<>>
    THEN [err |-> FALSE, domains |-> domains, external_ports |-> external_ports,
          files |-> st.files, issued |-> st.issued]
    ELSE LET container == Head(running)
         IN  IF container.domain \in Range(domains)
             THEN [err |-> TRUE, domains |-> domains, external_ports |-> external_ports,
                   files |-> st.files, issued |-> st.issued]
             ELSE ContainersLoop(
                    Tail(running),
                    IF container.domain # "" THEN Append(domains, container.domain)
                                             ELSE domains,
                    external_ports \cup Externals(container.ports)
                                   \cup Externals(container.ssl_ports),
                    SslPortsLoop(container.ssl_ports, container.domain, st, io_ok),
                    io_ok)

\* the map a pass reads: the listener's own at startup, the shared copy later
Snapshot == IF main_pc = "startup_pass" THEN active_containers ELSE shared_containers

RunningContainers(containers, order) == [i \in DOMAIN order |-> containers[order[i]]]

PassResult(containers, order, fs, io_ok) ==
    ContainersLoop(RunningContainers(containers, order), <<>>, {},
                   [files |-> fs, issued |-> <<>>], io_ok)

----------------------------------------------------------------------------
(* nginx/config_generator.rs and nginx/container_manager.rs *)

RECURSIVE Stanzas(_, _, _)
Stanzas(container, ports, ssl) ==
    IF ports = <<>> THEN <<>>
    ELSE <<[listen |-> Head(ports).external, ssl |-> ssl,
            server_name |-> container.domain, upstream |-> container.name,
            upstream_port |-> Head(ports).internal]>>
         \o Stanzas(container, Tail(ports), ssl)

\* a template without the {{#each ssl_ports}} section
RECURSIVE render_plain_only(_)
render_plain_only(containers) ==
    IF containers = <<>> THEN <<>>
    ELSE Stanzas(Head(containers), Head(containers).ports, FALSE)
         \o render_plain_only(Tail(containers))

\* the template: for each container its plain ports, then its TLS ports
RECURSIVE render(_)
render(containers) ==
    IF containers = <<>> THEN <<>>
    ELSE Stanzas(Head(containers), Head(containers).ports, FALSE)
         \o Stanzas(Head(containers), Head(containers).ssl_ports, TRUE)
         \o render(Tail(containers))

\* the containers that carry the management label: none, or the one proxy
NoProxy == <<>>

\* the calls of create_and_start that can fail, in the order it makes them
ProxySteps ==
    <<"ensure_image_exists", "stop_and_remove", "ensure_network_exists",
      "create_container", "start_container">>

\* create_and_start fails at one of its calls, or at none
ProxyOutcomes == {"ok"} \cup Range(ProxySteps)

(* create_and_start: the managed containers afterwards. ensure_image_exists *)
(* fails, or the list_containers of stop_and_remove: nothing was touched.   *)
(* From there on every labelled container has been stopped and removed (an  *)
(* error of stop_container or remove_container is logged): a failure of     *)
(* ensure_network_exists or of create_container leaves none, a failure of   *)
(* start_container leaves the new container, created and not started.       *)
create_and_start(old, ports, outcome) ==
    CASE outcome = "ensure_image_exists"   -> old
      [] outcome = "stop_and_remove"       -> old
      [] outcome = "ensure_network_exists" -> NoProxy
      [] outcome = "create_container"      -> NoProxy
      [] outcome = "start_container"       -> <<[running |-> FALSE, ports |-> ports]>>
      [] OTHER                             -> <<[running |-> TRUE, ports |-> ports]>>

(* The Result of create_and_start. stop_errors: stop_container or           *)
(* remove_container returned an error, the container being stopped or gone  *)
(* already; stop_and_remove warns and returns Ok(count) all the same.       *)
create_and_start_ok(outcome, stop_errors) == outcome = "ok"

----------------------------------------------------------------------------
(* The container runtime, for the specification that follows the state of   *)
(* the containers: each labelled container is absent, stopped or running;   *)
(* the stream holds the events sent to the listener and not yet taken.      *)

\* the runtime where it is not followed: events and extractions are arbitrary
Unobserved == [state |-> [id \in Ids |-> "absent"], stream |-> <<>>]

\* the PEM files where their contents are not followed
Unread == [ca_crt |-> "none", ca_key |-> "none", signer |-> <<>>]

----------------------------------------------------------------------------
(* docker/mod.rs: connect_docker *)

RETRY_INTERVAL_SECS == 15

\* connect_docker has returned Ok(docker_client), at the first attempt
Connected == [pc |-> "returned", attempt_count |-> 1, wait |-> 0]

(* One turn of the loop: connect_with_..._defaults() and version().await.   *)
(* Both Ok: return Ok(docker_client). Either fails: warn!, attempt_count    *)
(* += 1, sleep(15 s), and the next turn. The counter is only logged; the    *)
(* model lets it rest at MaxAttempts.                                       *)
ConnectAttempt ==
    /\ connecting.pc = "attempt"
    /\ \E reached \in BOOLEAN :
        connecting' = IF reached
                      THEN [connecting EXCEPT !.pc = "returned"]
                      ELSE [pc |-> "sleep",
                            attempt_count |->
                                IF connecting.attempt_count < MaxAttempts
                                THEN connecting.attempt_count + 1
                                ELSE connecting.attempt_count,
                            wait |-> RETRY_INTERVAL_SECS]
    /\ UNCHANGED <<main_pc, event, active_containers, shared_containers, debounce,
                   shutdown_sent, flush_pc, sleep_left, pass_pc, pass_order, pass_log,
                   files, nginx_conf, proxy, faults, since_pass, burst, passes_after>>
    /\ UNCHANGED <<hosts_vars, runtime, pem>>

\* a second of the sleep between two attempts passes
ConnectWait ==
    /\ connecting.pc = "sleep"
    /\ connecting.wait > 0
    /\ connecting' = [connecting EXCEPT !.wait = @ - 1]
    /\ UNCHANGED <<main_pc, event, active_containers, shared_containers, debounce,
                   shutdown_sent, flush_pc, sleep_left, pass_pc, pass_order, pass_log,
                   files, nginx_conf, proxy, faults, since_pass, burst, passes_after>>
    /\ UNCHANGED <<hosts_vars, runtime, pem>>

\* the sleep is over: the loop takes its next turn
ConnectWake ==
    /\ connecting.pc = "sleep"
    /\ connecting.wait = 0
    /\ connecting' = [connecting EXCEPT !.pc = "attempt"]
    /\ UNCHANGED <<main_pc, event, active_containers, shared_containers, debounce,
                   shutdown_sent, flush_pc, sleep_left, pass_pc, pass_order, pass_log,
                   files, nginx_conf, proxy, faults, since_pass, burst, passes_after>>
    /\ UNCHANGED <<hosts_vars, runtime, pem>>

----------------------------------------------------------------------------
(* docker/mod.rs: monitor_containers *)

DEBOUNCE_DURATION_SECS == 5
SLEEP_SECS == 1

EventActions == {"start", "stop", "die", "destroy"}
NoEvent == [action |-> "none", id |-> "none"]

\* DebounceState as monitor_containers creates it
NewDebounceState == [last_update_request |-> None, pending_update |-> FALSE]

\* a debounce task that flushes whatever is pending, however recent the request
DebounceElapsedUntimed(state) == state.pending_update

\* the test of the debounce task: pending, and the last request 5 s old or older
DebounceElapsed(state) ==
    /\ state.pending_update
    /\ state.last_update_request # None
    /\ state.last_update_request[1] >= DEBOUNCE_DURATION_SECS

\* what the debounce task does to the state before it runs the pass
ClearRequest(state) == [last_update_request |-> None, pending_update |-> FALSE]

\* a listener that stamps the time of the request and forgets to mark it pending
RequestUpdateNotPending(state) == [last_update_request |-> <<0>>, pending_update |-> FALSE]

\* what the listener does to the state after a change: Instant::now(), pending
RequestUpdate(state) == [last_update_request |-> Some(0), pending_update |-> TRUE]

\* a "start" arm without the contains_key test
StartAlwaysNeedsInfo(containers, id) == TRUE

\* the "start" arm: extraction is attempted for an id that is not tracked
StartNeedsInfo(containers, id) == ~contains_key(containers, id)

\* a "stop" arm that reports a change whether or not it removed anything
StopArmAlwaysChanged(containers, id) ==
    [containers |-> [i \in DOMAIN containers \ {id} |-> containers[i]], state_changed |-> TRUE]

\* the "stop" | "die" | "destroy" arm: the map afterwards, and state_changed
StopArm(containers, id) ==
    IF contains_key(containers, id)
    THEN [containers |-> remove(containers, id), state_changed |-> TRUE]
    ELSE [containers |-> containers, state_changed |-> FALSE]

\* the Ok arm of the "start" match: the map afterwards
StartInsert(containers, id, container_info) == insert(containers, id, container_info)

\* the process runs: no shutdown yet, no fatal startup error
Alive == main_pc \notin {"done", "failed"}

\* a monitor_containers that spawns the debounce task first, with a pass due
MonitorInitPassDue ==
    /\ main_pc = "scan"
    /\ event = NoEvent
    /\ active_containers = EmptyMap
    /\ shared_containers = EmptyMap
    /\ debounce = NewDebounceState
    /\ shutdown_sent = FALSE
    /\ connecting = Connected
    /\ flush_pc = "lock_containers"
    /\ sleep_left = 0
    /\ pass_pc = "idle"
    /\ pass_order = <<>>
    /\ pass_log = <<>>
    /\ nginx_conf = <<>>
    /\ proxy = NoProxy
    /\ since_pass = DEBOUNCE_DURATION_SECS
    /\ burst = {}
    /\ passes_after = 0

\* monitor_containers as it starts, whatever the certificate directories hold
MonitorInit ==
    /\ main_pc = "scan"
    /\ event = NoEvent
    /\ active_containers = EmptyMap
    /\ shared_containers = EmptyMap
    /\ debounce = NewDebounceState
    /\ shutdown_sent = FALSE
    /\ connecting = Connected
    /\ flush_pc = "unspawned"
    /\ sleep_left = 0
    /\ pass_pc = "idle"
    /\ pass_order = <<>>
    /\ pass_log = <<>>
    /\ nginx_conf = <<>>
    /\ proxy = NoProxy
    /\ since_pass = DEBOUNCE_DURATION_SECS
    /\ burst = {}
    /\ passes_after = 0

\* the engine started on empty certificate directories
EngineInit == MonitorInit /\ files = {}

\* a scan loop that tracks the running containers only
ScanLoopRunningOnly(listed, results) ==
    [id \in {i \in listed : results[i] # None /\ results[i][1].is_running} |-> results[id][1]]

\* the scan loop: a container whose extraction fails is skipped
RECURSIVE ScanLoop(_, _)
ScanLoop(listed, results) ==
    IF listed = {} THEN EmptyMap
    ELSE LET id == CHOOSE x \in listed : TRUE
             rest == ScanLoop(listed \ {id}, results)
         IN  IF results[id] = None THEN rest ELSE insert(rest, id, results[id][1])

ExtractionResults(listed) ==
    {r \in [listed -> UNION {from_container(id) : id \in listed}] :
        \A id \in listed : r[id] \in from_container(id)}

(* list_containers with all = true, then from_container for each id, then   *)
(* the first pass is started. The inventory and the extraction results are  *)
(* remembered in call for the length of the startup pass.                   *)
ScanOf(listed, results) ==
    /\ main_pc = "scan"
    /\ active_containers' = ScanLoop(listed, results)
    /\ call' = [op |-> "list_containers", listed |-> listed, results |-> results]
    /\ main_pc' = "startup_pass"
    /\ pass_pc' = "loop"
    /\ since_pass' = 0
    /\ UNCHANGED <<event, shared_containers, debounce, flush_pc, sleep_left, pass_order, pass_log,
                   files, nginx_conf, proxy, faults, burst, passes_after>>
    /\ UNCHANGED <<hosts, prev_hosts, last_domains, applied, shutdown_sent, connecting, runtime, pem>>

\* the scan, whatever the runtime lists and whatever the extractions return
StartupScan ==
    \E listed \in SUBSET Ids :
        \E results \in ExtractionResults(listed) : ScanOf(listed, results)

\* list_containers(...).await? fails: monitor_containers returns the error
ScanFails ==
    /\ main_pc = "scan"
    /\ main_pc' = "failed"
    /\ UNCHANGED <<event, active_containers, shared_containers, debounce, flush_pc,
                   sleep_left, pass_pc, pass_order, pass_log, files, nginx_conf, proxy, faults,
                   since_pass, burst, passes_after>>
    /\ UNCHANGED <<hosts_vars, shutdown_sent, connecting, runtime, pem>>

(* The end of update_configuration. At startup an error leaves               *)
(* monitor_containers through `?`; success goes on to spawn the debounce     *)
(* task over a clone of the map. In the debounce task the result is logged   *)
(* and the loop sleeps again; the guard of the shared map is dropped.        *)
EndPass(err) ==
    /\ pass_pc' = "idle"
    /\ pass_order' = <<>>
    /\ pass_log' = <<>>
    /\ call' = IF main_pc = "startup_pass" THEN NoCall ELSE call
    /\ IF main_pc = "startup_pass"
       THEN IF err
            THEN /\ main_pc' = "failed"
                 /\ UNCHANGED <<shared_containers, flush_pc, sleep_left>>
            ELSE /\ main_pc' = "select"
                 /\ shared_containers' = active_containers
                 /\ flush_pc' = "sleep"
                 /\ sleep_left' = SLEEP_SECS
       ELSE /\ flush_pc' = "sleep"
            /\ sleep_left' = SLEEP_SECS
            /\ UNCHANGED <<main_pc, shared_containers>>

\* an operation that touches the file system or the runtime: it may fail while
\* the environment has failures left to cause
Outcomes == {ok \in BOOLEAN : ok \/ faults > 0}

Spend(ok) == IF ok THEN faults ELSE faults - 1

\* a call whose error leaves update_configuration, as `?` would make it
PropagatedStep(next, ok) == IF ok THEN next ELSE "idle"

\* `if let Err(e) = ... { warn!(..) }`: the step after the call, whatever it returned
LoggedStep(next, ok) == next

\* the domains a pass over the map may ask a certificate for
TlsDomains(containers) ==
    {containers[id].domain :
        id \in {i \in RunningIds(containers) : containers[i].ssl_ports # <<>>}}

\* the outcomes of the issuances of a pass, domain by domain
IssuanceOutcomes(containers) ==
    [TlsDomains(containers) -> IF faults > 0 THEN CertOutcomes ELSE {NoFailure}]

\* the calls of the list that returned an error
Failures(log) == Cardinality({i \in DOMAIN log : ~log[i].ok})

\* the filter and the loop over the running containers, in the map's order
PassLoop ==
    /\ Alive
    /\ pass_pc = "loop"
    /\ \E order \in Orders(RunningIds(Snapshot)), io_ok \in IssuanceOutcomes(Snapshot) :
        LET r == PassResult(Snapshot, order, files, io_ok)
        IN  /\ Failures(r.issued) <= faults
            /\ files' = r.files
            /\ faults' = faults - Failures(r.issued)
            /\ IF r.err
               THEN EndPass(TRUE)
               ELSE /\ pass_pc' = "hosts"
                    /\ pass_order' = order
                    /\ pass_log' = r.issued
                    /\ UNCHANGED <<main_pc, shared_containers, flush_pc, sleep_left, call>>
    /\ UNCHANGED <<event, active_containers, debounce, nginx_conf, proxy, since_pass,
                   burst, passes_after>>
    /\ UNCHANGED <<hosts, prev_hosts, last_domains, applied, shutdown_sent, connecting, runtime, pem>>

\* the domains and external_ports the loop of the running pass has collected
PassDomains ==
    PassResult(Snapshot, pass_order, files,
               [d \in TlsDomains(Snapshot) |-> NoFailure]).domains

PassPorts ==
    PassResult(Snapshot, pass_order, files,
               [d \in TlsDomains(Snapshot) |-> NoFailure]).external_ports

\* hosts_manager.update_managed_block(&domains): an error is logged
PassHosts ==
    /\ Alive
    /\ pass_pc = "hosts"
    /\ \E ok \in Outcomes :
        /\ hosts' = IF ok THEN update_managed_block(hosts, PassDomains) ELSE hosts
        /\ faults' = Spend(ok)
        /\ pass_log' = Append(pass_log, Invoked("hosts", "", ok))
        /\ pass_pc' = LoggedStep("config", ok)
    /\ UNCHANGED <<hosts_history, shutdown_sent, connecting, runtime, pem>>
    /\ UNCHANGED <<main_pc, event, active_containers, shared_containers, debounce,
                   flush_pc, sleep_left, pass_order, files, nginx_conf, proxy,
                   since_pass, burst, passes_after>>

\* config_generator.generate_config(...): an error is logged
PassConfig ==
    /\ Alive
    /\ pass_pc = "config"
    /\ \E ok \in Outcomes :
        /\ nginx_conf' = IF ok THEN render(RunningContainers(Snapshot, pass_order))
                               ELSE nginx_conf
        /\ faults' = Spend(ok)
        /\ pass_log' = Append(pass_log, Invoked("config", "", ok))
        /\ pass_pc' = LoggedStep("proxy", ok)
    /\ UNCHANGED <<main_pc, event, active_containers, shared_containers, debounce,
                   flush_pc, sleep_left, pass_order, files, proxy, since_pass, burst,
                   passes_after>>
    /\ UNCHANGED <<hosts_vars, shutdown_sent, connecting, runtime, pem>>

\* nginx_manager.create_and_start(&ports): an error is logged; the pass is over
PassProxy ==
    /\ Alive
    /\ pass_pc = "proxy"
    /\ \E outcome \in ProxyOutcomes :
        /\ outcome = "ok" \/ faults > 0
        /\ proxy' = create_and_start(proxy, PassPorts, outcome)
        /\ faults' = Spend(outcome = "ok")
    /\ EndPass(FALSE)
    /\ UNCHANGED <<event, active_containers, debounce, files, nginx_conf, since_pass,
                   burst, passes_after>>
    /\ UNCHANGED <<hosts, prev_hosts, last_domains, applied, shutdown_sent, connecting, runtime, pem>>

----------------------------------------------------------------------------
(* The debounce task. *)

(* One turn of its loop after sleep(1 s): under the DebounceState lock, test *)
(* the state; when the request is due, clear it and drop the lock.           *)
Tick ==
    /\ Alive
    /\ flush_pc = "sleep"
    /\ sleep_left = 0
    /\ IF DebounceElapsed(debounce)
       THEN /\ debounce' = ClearRequest(debounce)
            /\ flush_pc' = "lock_containers"
            /\ UNCHANGED sleep_left
       ELSE /\ sleep_left' = SLEEP_SECS
            /\ UNCHANGED <<debounce, flush_pc>>
    /\ UNCHANGED <<main_pc, event, active_containers, shared_containers, pass_pc,
                   pass_order, pass_log, files, nginx_conf, proxy, faults, since_pass, burst, passes_after>>
    /\ UNCHANGED <<hosts_vars, shutdown_sent, connecting, runtime, pem>>

(* active_containers_for_task.lock().await, then update_configuration on the *)
(* guarded map: the guard lives until the pass has returned.                 *)
FlushLock ==
    /\ Alive
    /\ flush_pc = "lock_containers"
    /\ flush_pc' = "pass"
    /\ pass_pc' = "loop"
    /\ since_pass' = 0
    /\ passes_after' = IF passes_after < MaxPassCount THEN passes_after + 1
                                                       ELSE passes_after
    /\ UNCHANGED <<main_pc, event, active_containers, shared_containers, debounce,
                   sleep_left, pass_order, pass_log, files, nginx_conf, proxy, faults, burst>>
    /\ UNCHANGED <<hosts_vars, shutdown_sent, connecting, runtime, pem>>

\* the shared map is locked by the debounce task for the length of its pass
ContainersLocked == flush_pc = "pass"

----------------------------------------------------------------------------
(* The event loop of monitor_containers. *)

\* events.next() yields an event of the filtered stream
Receive(action, id) ==
    /\ main_pc = "select"
    /\ event' = [action |-> action, id |-> id]
    /\ main_pc' = "dispatch"
    /\ UNCHANGED <<active_containers, shared_containers, debounce, flush_pc, sleep_left,
                   pass_pc, pass_order, pass_log, files, nginx_conf, proxy, faults, since_pass, burst,
                   passes_after>>
    /\ UNCHANGED <<hosts_vars, shutdown_sent, connecting, runtime, pem>>

\* match action.as_str()
Dispatch ==
    /\ main_pc = "dispatch"
    /\ IF event.action = "start"
       THEN /\ main_pc' = IF StartNeedsInfo(active_containers, event.id)
                          THEN "from_container" ELSE "select"
            /\ event' = IF StartNeedsInfo(active_containers, event.id)
                        THEN event ELSE NoEvent
            /\ UNCHANGED active_containers
       ELSE LET r == StopArm(active_containers, event.id)
            IN  /\ active_containers' = r.containers
                /\ main_pc' = IF r.state_changed THEN "publish" ELSE "select"
                /\ event' = IF r.state_changed THEN event ELSE NoEvent
    /\ UNCHANGED <<shared_containers, debounce, flush_pc, sleep_left, pass_pc,
                   pass_order, pass_log, files, nginx_conf, proxy, faults, since_pass, burst, passes_after>>
    /\ UNCHANGED <<hosts_vars, shutdown_sent, connecting, runtime, pem>>

\* a "start" arm that returns the error of the extraction, as `?` would
AfterExtractionPropagated(result) == IF result = None THEN "failed" ELSE "publish"

\* where the "start" arm goes after the match on the extraction: Err is logged
AfterExtraction(result) == IF result = None THEN "select" ELSE "publish"

\* ContainerInfo::from_container(&docker, &id).await returns result
ExtractOf(result) ==
    /\ main_pc = "from_container"
    /\ main_pc' = AfterExtraction(result)
    /\ IF result = None
       THEN /\ event' = NoEvent
            /\ UNCHANGED active_containers
       ELSE /\ active_containers' = StartInsert(active_containers, event.id, result[1])
            /\ UNCHANGED event
    /\ UNCHANGED <<shared_containers, debounce, flush_pc, sleep_left, pass_pc,
                   pass_order, pass_log, files, nginx_conf, proxy, faults, since_pass, burst, passes_after>>
    /\ UNCHANGED <<hosts_vars, shutdown_sent, connecting, runtime, pem>>

\* the extraction, whatever it returns
Extract ==
    /\ main_pc = "from_container"
    /\ \E result \in from_container(event.id) : ExtractOf(result)

\* a listener that takes the lock and leaves the shared map as it was
StoreSharedKept(shared, containers) == shared

\* *shared_containers = active_containers.clone()
StoreShared(shared, containers) == containers

\* state_changed: lock the shared map, store a clone of the listener's map
Publish ==
    /\ main_pc = "publish"
    /\ ~ContainersLocked
    /\ shared_containers' = StoreShared(shared_containers, active_containers)
    /\ main_pc' = "request"
    /\ UNCHANGED <<event, active_containers, debounce, flush_pc, sleep_left, pass_pc,
                   pass_order, pass_log, files, nginx_conf, proxy, faults, since_pass, burst, passes_after>>
    /\ UNCHANGED <<hosts_vars, shutdown_sent, connecting, runtime, pem>>

\* the request recorded just before a new one is within the debounce window
WithinWindow(state) ==
    /\ state.pending_update
    /\ state.last_update_request # None
    /\ state.last_update_request[1] < DEBOUNCE_DURATION_SECS

\* state_changed: lock the DebounceState, record the request
Request ==
    /\ main_pc = "request"
    /\ debounce' = RequestUpdate(debounce)
    /\ main_pc' = "select"
    /\ event' = NoEvent
    /\ burst' = IF event.action # "start" THEN {}
                ELSE IF WithinWindow(debounce) /\ burst # {} THEN burst \cup {event.id}
                ELSE {event.id}
    /\ passes_after' = 0
    /\ UNCHANGED <<active_containers, shared_containers, flush_pc, sleep_left, pass_pc,
                   pass_order, pass_log, files, nginx_conf, proxy, faults, since_pass>>
    /\ UNCHANGED <<hosts_vars, shutdown_sent, connecting, runtime, pem>>

(* main.rs, the task spawned before monitor_containers is called: ctrl_c()  *)
(* returns and the task sends on the shutdown channel, wherever the         *)
(* listener and the debounce task stand.                                    *)
CtrlC ==
    /\ Alive
    /\ ~shutdown_sent
    /\ shutdown_sent' = TRUE
    /\ UNCHANGED <<main_pc, event, active_containers, shared_containers, debounce,
                   flush_pc, sleep_left, pass_pc, pass_order, pass_log, files, nginx_conf,
                   proxy, faults, since_pass, burst, passes_after>>
    /\ UNCHANGED <<hosts_vars, connecting, runtime, pem>>

(* The shutdown arm of select!: the loop breaks, monitor_containers returns  *)
(* Ok and the runtime is dropped with the process. The arm is taken with     *)
(* the signal in the channel, sent earlier or at this very moment.           *)
Shutdown ==
    /\ main_pc = "select"
    /\ main_pc' = "done"
    /\ shutdown_sent' = TRUE
    /\ UNCHANGED <<event, active_containers, shared_containers, debounce, flush_pc,
                   sleep_left, pass_pc, pass_order, pass_log, files, nginx_conf, proxy, faults,
                   since_pass, burst, passes_after>>
    /\ UNCHANGED <<hosts_vars, connecting, runtime, pem>>

----------------------------------------------------------------------------
(* Time, in seconds. The runtime promises no step of a task within a given  *)
(* time: a timer fires when it is due or later, a lock is had when it is    *)
(* free or later. So the clock may move before any step.                    *)

Older(t) == IF t < DEBOUNCE_DURATION_SECS THEN t + 1 ELSE t

Advance ==
    /\ Alive
    /\ sleep_left' = IF flush_pc = "sleep" /\ sleep_left > 0 THEN sleep_left - 1
                                                             ELSE sleep_left
    /\ debounce' = IF debounce.last_update_request = None THEN debounce
                   ELSE [debounce EXCEPT !.last_update_request =
                            Some(Older(debounce.last_update_request[1]))]
    /\ since_pass' = Older(since_pass)
    /\ UNCHANGED <<main_pc, event, active_containers, shared_containers, flush_pc,
                   pass_pc, pass_order, pass_log, files, nginx_conf, proxy, faults, burst, passes_after>>
    /\ UNCHANGED <<hosts_vars, shutdown_sent, connecting, runtime, pem>>

----------------------------------------------------------------------------
(* The engine. *)

Init ==
    /\ EngineInit
    /\ faults = 0
    /\ hosts = <<"x", NL>>
    /\ prev_hosts = hosts
    /\ last_domains = <<>>
    /\ applied = FALSE
    /\ runtime = Unobserved
    /\ pem = Unread
    /\ call = NoCall

Next ==
    \/ StartupScan
    \/ ScanFails
    \/ PassLoop
    \/ PassHosts
    \/ PassConfig
    \/ PassProxy
    \/ Tick
    \/ FlushLock
    \/ \E action \in EventActions, id \in Ids : Receive(action, id)
    \/ Dispatch
    \/ Extract
    \/ Publish
    \/ Request
    \/ Shutdown
    \/ Advance

Spec == Init /\ [][Next]_vars

(* The engine with what its scheduling guarantees: a task that can take a   *)
(* step takes it, a pass at work goes on, time passes. Nothing makes the    *)
(* runtime send an event or the user send the shutdown signal. The file     *)
(* system and the runtime do not fail (Init).                               *)

\* the steps of the listener between two events
MainStep == Dispatch \/ Extract \/ Publish \/ Request

\* the steps of the debounce task outside a pass
FlushStep == Tick \/ FlushLock

\* the steps of a pass, whichever task runs it
PassStep == PassLoop \/ PassHosts \/ PassConfig \/ PassProxy

\* weak fairness of PassStep written out: a step of a pass is enabled exactly
\* while a live process is inside a pass
PassStepFair == []<>(~(Alive /\ pass_pc # "idle")) \/ []<><<PassStep>>_vars

Fairness ==
    /\ WF_vars(MainStep)
    /\ WF_vars(FlushStep)
    /\ PassStepFair
    /\ WF_vars(Advance)

LiveSpec == Init /\ [][Next]_vars /\ Fairness

(* The engine in an environment that makes up to MaxFaults operations on    *)
(* the file system or the runtime fail.                                     *)
FaultyInit ==
    /\ EngineInit
    /\ faults \in 0..MaxFaults
    /\ hosts = <<"x", NL>>
    /\ prev_hosts = hosts
    /\ last_domains = <<>>
    /\ applied = FALSE
    /\ runtime = Unobserved
    /\ pem = Unread
    /\ call = NoCall

FaultySpec == FaultyInit /\ [][Next]_vars

(* The engine with the shutdown signal sent at any moment of the run. Under *)
(* Spec it is sent only as the listener takes it, waiting in select!.       *)
SignalNext == Next \/ CtrlC

SignalSpec == Init /\ [][SignalNext]_vars

(* run_service at its call of connect_docker: monitor_containers has not    *)
(* been called yet. Every attempt may reach the runtime or not; the loop    *)
(* and its timer are scheduled.                                             *)
ConnectInit ==
    /\ connecting = [pc |-> "attempt", attempt_count |-> 1, wait |-> 0]
    /\ main_pc = "scan"
    /\ event = NoEvent
    /\ active_containers = EmptyMap
    /\ shared_containers = EmptyMap
    /\ debounce = NewDebounceState
    /\ shutdown_sent = FALSE
    /\ flush_pc = "unspawned"
    /\ sleep_left = 0
    /\ pass_pc = "idle"
    /\ pass_order = <<>>
    /\ pass_log = <<>>
    /\ files = {}
    /\ nginx_conf = <<>>
    /\ proxy = NoProxy
    /\ faults = 0
    /\ since_pass = DEBOUNCE_DURATION_SECS
    /\ burst = {}
    /\ passes_after = 0
    /\ hosts = <<"x", NL>>
    /\ prev_hosts = hosts
    /\ last_domains = <<>>
    /\ applied = FALSE
    /\ runtime = Unobserved
    /\ pem = Unread
    /\ call = NoCall

ConnectNext == ConnectAttempt \/ ConnectWait \/ ConnectWake

ConnectSpec == ConnectInit /\ [][ConnectNext]_vars /\ WF_vars(ConnectNext)

----------------------------------------------------------------------------
(* The engine beside a runtime whose containers start and stop: the scan    *)
(* lists the containers that exist, an extraction reports the state the     *)
(* container is in, and an event reaches the listener only through the      *)
(* stream of docker.events, which exists from the call of docker.events on. *)
(* Nothing fails and no shutdown signal is sent.                            *)

\* docker.events(Some(opts)) has been called: the startup pass has returned
Subscribed == main_pc \in {"select", "dispatch", "from_container", "publish", "request"}

WorldInit ==
    /\ EngineInit
    /\ faults = 0
    /\ hosts = <<"x", NL>>
    /\ prev_hosts = hosts
    /\ last_domains = <<>>
    /\ applied = FALSE
    /\ call = NoCall
    /\ runtime \in {[state |-> s, stream |-> <<>>] :
                        s \in [Ids -> {"absent", "stopped", "running"}]}
    /\ pem = Unread

\* what the runtime sends for a change: to the subscriber, if there is one
Emit(action, id) ==
    IF Subscribed THEN Append(runtime.stream, [action |-> action, id |-> id])
                  ELSE runtime.stream

\* the user starts a container (docker run, docker start)
WorldStart(id) ==
    /\ Alive
    /\ runtime.state[id] # "running"
    /\ Len(runtime.stream) < MaxStream
    /\ runtime' = [state |-> [runtime.state EXCEPT ![id] = "running"],
                   stream |-> Emit("start", id)]
    /\ UNCHANGED <<connecting, main_pc, event, active_containers, shared_containers,
                   debounce, shutdown_sent, flush_pc, sleep_left, pass_pc, pass_order,
                   pass_log, files, nginx_conf, proxy, faults, since_pass, burst,
                   passes_after>>
    /\ UNCHANGED <<hosts_vars, pem>>

\* a container stops; of the events the runtime sends for it (die, stop), one
WorldStop(id) ==
    /\ Alive
    /\ runtime.state[id] = "running"
    /\ Len(runtime.stream) < MaxStream
    /\ runtime' = [state |-> [runtime.state EXCEPT ![id] = "stopped"],
                   stream |-> Emit("stop", id)]
    /\ UNCHANGED <<connecting, main_pc, event, active_containers, shared_containers,
                   debounce, shutdown_sent, flush_pc, sleep_left, pass_pc, pass_order,
                   pass_log, files, nginx_conf, proxy, faults, since_pass, burst,
                   passes_after>>
    /\ UNCHANGED <<hosts_vars, pem>>

\* from_container on the runtime: Err for no container, else the state it is in
Inspect(id) ==
    IF runtime.state[id] = "absent" THEN None
    ELSE Some(ContainerInfo(id, runtime.state[id] = "running"))

\* list_containers with all: true, and from_container for each id listed
WorldScan ==
    ScanOf({id \in Ids : runtime.state[id] # "absent"},
           [id \in {i \in Ids : runtime.state[i] # "absent"} |-> Inspect(id)])

\* events.next() yields the oldest event of the stream
WorldReceive ==
    /\ main_pc = "select"
    /\ runtime.stream # <<>>
    /\ event' = Head(runtime.stream)
    /\ runtime' = [runtime EXCEPT !.stream = Tail(runtime.stream)]
    /\ main_pc' = "dispatch"
    /\ UNCHANGED <<connecting, active_containers, shared_containers, debounce,
                   shutdown_sent, flush_pc, sleep_left, pass_pc, pass_order, pass_log,
                   files, nginx_conf, proxy, faults, since_pass, burst, passes_after>>
    /\ UNCHANGED <<hosts_vars, pem>>

WorldExtract == main_pc = "from_container" /\ ExtractOf(Inspect(event.id))

WorldNext ==
    \/ WorldScan
    \/ PassLoop
    \/ PassHosts
    \/ PassConfig
    \/ PassProxy
    \/ Tick
    \/ FlushLock
    \/ WorldReceive
    \/ Dispatch
    \/ WorldExtract
    \/ Publish
    \/ Request
    \/ Advance
    \/ \E id \in Ids : WorldStart(id)
    \/ \E id \in Ids : WorldStop(id)

\* the steps of the listener: it takes what the stream holds and handles it
WorldMainStep == WorldReceive \/ Dispatch \/ WorldExtract \/ Publish \/ Request

WorldSpec ==
    /\ WorldInit
    /\ [][WorldNext]_vars
    /\ WF_vars(WorldMainStep)
    /\ WF_vars(FlushStep)
    /\ PassStepFair
    /\ WF_vars(Advance)

----------------------------------------------------------------------------
(* The two mutexes, step by step. In the engine above a critical section    *)
(* that holds no await is one step; here taking a lock and leaving the      *)
(* critical section are steps of their own, so that a task can be seen      *)
(* waiting for a lock while the other task holds it. One container is       *)
(* enough for that.                                                         *)

\* a debounce task that keeps the guard of the DebounceState through the pass
StateHeldByFlushThroughPass == flush_pc \in {"test", "lock_containers", "pass"}

\* the guard `state` of the debounce task: from lock() to drop(state), or to
\* the end of the loop body when no pass is due
StateHeldByFlush == flush_pc = "test"

\* the guard `state` of the listener: from lock() to the end of the block
StateHeldByListener == main_pc = "record"

\* the guard `containers` of the debounce task lives as long as its pass
ContainersHeldByFlush == flush_pc = "pass"

\* the guard `shared_containers` of the listener: from lock() to drop
ContainersHeldByListener == main_pc = "store"

\* everything but the two tasks' positions, the shared map, the DebounceState
\* and the timer
lock_frame ==
    <<connecting, event, active_containers, shutdown_sent, pass_pc, pass_order, pass_log,
      hosts, files, pem, nginx_conf, proxy, faults, runtime, prev_hosts, last_domains,
      applied, since_pass, burst, call>>

\* debounce_state_clone.lock().await is granted
FlushLocksState ==
    /\ flush_pc = "sleep"
    /\ sleep_left = 0
    /\ ~StateHeldByListener
    /\ flush_pc' = "test"
    /\ UNCHANGED <<main_pc, shared_containers, debounce, sleep_left, passes_after, lock_frame>>

\* the test under the lock; the guard is dropped either way
FlushTestsState ==
    /\ flush_pc = "test"
    /\ IF DebounceElapsed(debounce)
       THEN /\ debounce' = ClearRequest(debounce)
            /\ flush_pc' = "lock_containers"
            /\ UNCHANGED sleep_left
       ELSE /\ sleep_left' = SLEEP_SECS
            /\ flush_pc' = "sleep"
            /\ UNCHANGED debounce
    /\ UNCHANGED <<main_pc, shared_containers, passes_after, lock_frame>>

\* active_containers_for_task.lock().await is granted: the pass starts
FlushLocksContainers ==
    /\ ~ContainersHeldByListener
    /\ FlushLock

\* active_containers_arc.lock().await is granted
ListenerLocksContainers ==
    /\ main_pc = "publish"
    /\ ~ContainersHeldByFlush
    /\ main_pc' = "store"
    /\ UNCHANGED <<flush_pc, shared_containers, debounce, sleep_left, passes_after, lock_frame>>

\* *shared_containers = active_containers.clone(); drop(shared_containers)
ListenerStores ==
    /\ main_pc = "store"
    /\ shared_containers' = StoreShared(shared_containers, active_containers)
    /\ main_pc' = "request"
    /\ UNCHANGED <<flush_pc, debounce, sleep_left, passes_after, lock_frame>>

\* debounce_state.lock().await is granted
ListenerLocksState ==
    /\ main_pc = "request"
    /\ ~StateHeldByFlush
    /\ main_pc' = "record"
    /\ UNCHANGED <<flush_pc, shared_containers, debounce, sleep_left, passes_after, lock_frame>>

\* the request is recorded and the guard dropped with the block
ListenerRecords ==
    /\ main_pc = "record"
    /\ debounce' = RequestUpdate(debounce)
    /\ main_pc' = "select"
    /\ event' = NoEvent
    /\ passes_after' = 0
    /\ UNCHANGED <<connecting, active_containers, shutdown_sent, pass_pc, pass_order,
                   pass_log, hosts, files, pem, nginx_conf, proxy, faults, runtime,
                   prev_hosts, last_domains, applied, since_pass, burst, call>>
    /\ UNCHANGED <<flush_pc, shared_containers, sleep_left>>

\* the steps of the listener that wait for nothing
ListenerStep == Dispatch \/ Extract \/ ListenerStores \/ ListenerRecords

LockNext ==
    \/ \E listed \in SUBSET {"c1"} :
         \E results \in ExtractionResults(listed) : ScanOf(listed, results)
    \/ PassLoop
    \/ PassHosts
    \/ PassConfig
    \/ PassProxy
    \/ FlushLocksState
    \/ FlushTestsState
    \/ FlushLocksContainers
    \/ \E action \in {"start", "stop"} : Receive(action, "c1")
    \/ Dispatch
    \/ Extract
    \/ ListenerLocksContainers
    \/ ListenerStores
    \/ ListenerLocksState
    \/ ListenerRecords
    \/ Advance

(* Scheduling: every task that can take a step takes it, every pass goes on *)
(* to its end, time passes, and the mutexes are fair: tokio's Mutex grants  *)
(* the lock in the order of the requests, so a task that finds the lock     *)
(* free again and again is granted it.                                      *)
LockSpec ==
    /\ Init
    /\ [][LockNext]_vars
    /\ WF_vars(ListenerStep)
    /\ WF_vars(FlushTestsState)
    /\ PassStepFair
    /\ WF_vars(Advance)
    /\ SF_vars(FlushLocksState)
    /\ SF_vars(FlushLocksContainers)
    /\ SF_vars(ListenerLocksContainers)
    /\ SF_vars(ListenerLocksState)

----------------------------------------------------------------------------
(* The proxy container manager on its own: any sequence of calls of        *)
(* create_and_start, each for any set of ports, failing at any of its      *)
(* calls or at none.                                                       *)

ProxyPorts == {80, 443}

CreateAndStart ==
    /\ \E ports \in SUBSET ProxyPorts, outcome \in ProxyOutcomes, stop_errors \in BOOLEAN :
        /\ stop_errors => proxy # NoProxy
        /\ proxy' = create_and_start(proxy, ports, outcome)
        /\ call' = [op |-> "create_and_start", before |-> proxy, ports |-> ports,
                    outcome |-> outcome, stop_errors |-> stop_errors,
                    ok |-> create_and_start_ok(outcome, stop_errors)]
    /\ UNCHANGED <<connecting, main_pc, event, active_containers, shared_containers,
                   debounce, shutdown_sent, flush_pc, sleep_left, pass_pc, pass_order,
                   pass_log, files, nginx_conf, faults, since_pass, burst, passes_after>>
    /\ UNCHANGED <<hosts, prev_hosts, last_domains, applied, runtime, pem>>

ProxySpec == Init /\ [][CreateAndStart]_vars

----------------------------------------------------------------------------
(* The hosts file manager on its own: any hosts file, any sequence of      *)
(* updates.                                                                *)

HostsInit ==
    /\ EngineInit
    /\ faults = 0
    /\ hosts \in HostsFiles
    /\ prev_hosts = hosts
    /\ last_domains = <<>>
    /\ applied = FALSE
    /\ runtime = Unobserved
    /\ pem = Unread
    /\ call = NoCall

UpdateManagedBlock ==
    /\ \E domains \in DomainLists :
        /\ hosts' = update_managed_block(hosts, domains)
        /\ last_domains' = domains
    /\ prev_hosts' = hosts
    /\ applied' = TRUE
    /\ UNCHANGED <<engine_vars, call>>

HostsNext == UpdateManagedBlock

HostsSpec == HostsInit /\ [][HostsNext]_vars

----------------------------------------------------------------------------
(* The certificate generator on its own: any content of the CA and        *)
(* certificate directories, any sequence of issuances, each failing at any *)
(* of its file-system operations or at none.                               *)

CertDomains == {"a.test", "b.test"}

CertFiles == CA_FILES \cup UNION {DomainCertFiles(d) : d \in CertDomains}

\* the keys in the files a run finds: those of the CA persisted by an earlier run
PemOf(fs) ==
    [ca_crt |-> IF <<"ca", "localCA.crt">> \in fs THEN "persisted" ELSE "none",
     ca_key |-> IF <<"ca", "localCA.key">> \in fs THEN "persisted" ELSE "none",
     signer |-> [d \in CertDomains |-> IF <<d, "crt">> \in fs THEN "persisted" ELSE "none"]]

(* The key of the ca_cert a leaf is signed with: with both CA files there,  *)
(* load_ca builds the certificate around the key read from localCA.key;     *)
(* otherwise create_ca_certificate generates a key.                         *)
SigningKey(fs, keys) == IF has_ca_files(fs) THEN keys.ca_key ELSE "created"

\* the keys in the PEM files after generate_certificates
WrittenKeys(fs, keys, domain, io_ok) ==
    LET written == CertWrites(fs, domain, io_ok)
        key == SigningKey(fs, keys)
    IN  [ca_crt |-> IF <<"ca", "localCA.crt">> \in written THEN key ELSE keys.ca_crt,
         ca_key |-> IF <<"ca", "localCA.key">> \in written THEN key ELSE keys.ca_key,
         signer |-> [d \in CertDomains |->
                        IF d = domain /\ <<domain, "crt">> \in written THEN key
                        ELSE keys.signer[d]]]

CertInit ==
    /\ MonitorInit
    /\ files \in SUBSET CertFiles
    /\ faults = 0
    /\ hosts = <<"x", NL>>
    /\ prev_hosts = hosts
    /\ last_domains = <<>>
    /\ applied = FALSE
    /\ runtime = Unobserved
    /\ pem = PemOf(files)
    /\ call = NoCall

GenerateCertificates ==
    /\ \E domain \in CertDomains, io_ok \in CertOutcomes :
        /\ files' = generate_certificates(files, domain, io_ok)
        /\ pem' = WrittenKeys(files, pem, domain, io_ok)
        /\ call' = [op |-> "generate_certificates", domain |-> domain, before |-> files,
                    keys |-> pem,
                    io_ok |-> io_ok, written |-> CertWrites(files, domain, io_ok),
                    ok |-> generate_certificates_ok(files, domain, io_ok)]
    /\ UNCHANGED <<connecting, main_pc, event, active_containers, shared_containers, debounce, shutdown_sent,
                   flush_pc, sleep_left, pass_pc, pass_order, pass_log, hosts, nginx_conf, proxy,
                   faults, runtime, prev_hosts, last_domains, applied, since_pass, burst,
                   passes_after>>

CertSpec == CertInit /\ [][GenerateCertificates]_vars

----------------------------------------------------------------------------
(* update_configuration on its own: one pass, run at startup or by the     *)
(* debounce task, over any map of containers with any labels, on a machine *)
(* that may hold certificates and a proxy container from an earlier run,   *)
(* with up to MaxFaults failing operations.                                *)

\* the ContainerInfo values of the container, whatever its labels say
AnyContainerInfo(id) ==
    {[id |-> id, name |-> id, is_running |-> r, domain |-> d,
      ports |-> Labels[id].ports, ssl_ports |-> t] :
        r \in BOOLEAN, d \in {"a.test", "b.test", ""},
        t \in {<<>>, <<Port(443, 8443)>>}}

AnyMaps ==
    UNION {{m \in [S -> UNION {AnyContainerInfo(id) : id \in S}] :
                \A id \in S : m[id] \in AnyContainerInfo(id)} : S \in SUBSET Ids}

PassInit ==
    /\ active_containers \in AnyMaps
    /\ \/ /\ main_pc = "startup_pass"
          /\ shared_containers = EmptyMap
          /\ flush_pc = "unspawned"
       \/ /\ main_pc = "select"
          /\ shared_containers = active_containers
          /\ flush_pc = "pass"
    /\ event = NoEvent
    /\ debounce = NewDebounceState
    /\ shutdown_sent = FALSE
    /\ connecting = Connected
    /\ sleep_left = 0
    /\ pass_pc = "loop"
    /\ pass_order = <<>>
    /\ pass_log = <<>>
    /\ files \in {{}, CA_FILES \cup DomainCertFiles("a.test")}
    /\ nginx_conf = <<>>
    /\ proxy \in {NoProxy, create_and_start(NoProxy, {80}, "ok")}
    /\ faults \in 0..MaxFaults
    /\ since_pass = 0
    /\ burst = {}
    /\ passes_after = 0
    /\ hosts = <<"x", NL>>
    /\ prev_hosts = hosts
    /\ last_domains = <<>>
    /\ applied = FALSE
    /\ runtime = Unobserved
    /\ pem = Unread
    /\ call = NoCall

PassNext == PassLoop \/ PassHosts \/ PassConfig \/ PassProxy

PassSpec == PassInit /\ [][PassNext]_vars

----------------------------------------------------------------------------
(* The port mapping parser on its own: Init draws the string, the actions  *)
(* parse it, as one mapping and as a list of mappings.                     *)

\* numbers around the two ends of the port range, and two usual ports
SampleNumbers == {0, 1, 80, 8080, U16_MAX, U16_MAX + 1}

\* texts that are no decimal notation: empty, blank, not a number, signed, padded
OddComponents ==
    {[text |-> <<>>, value |-> -1],
     [text |-> <<SP>>, value |-> -1],
     [text |-> <<"8", "a">>, value |-> -1],
     [text |-> <<"+", "8">>, value |-> 8],
     [text |-> <<SP, "0", "9">>, value |-> 9]}

Components == {Component(n) : n \in SampleNumbers} \cup OddComponents

\* tokens of one component or two, and some with two colons
Tokens ==
    [1..1 -> Components] \cup [1..2 -> Components]
        \cup [1..3 -> {Component(1), Component(80)}]

\* the tokens of the longer lists
ListTokens ==
    {<<Component(80)>>, <<Component(443), Component(8443)>>, <<Component(0)>>,
     <<Component(80), Component(U16_MAX + 1)>>, <<[text |-> <<>>, value |-> -1]>>,
     <<Component(1), Component(2), Component(3)>>}

\* every number from 0 to 65536 as a string of one token, the strings of no
\* token or one, and longer lists
PortInputs ==
    {<<<<Component(n)>>>> : n \in 0..(U16_MAX + 1)}
        \cup {<<>>} \cup {<<token>> : token \in Tokens}
        \cup UNION {[1..k -> ListTokens] : k \in 2..MaxTokens}

PortInit ==
    /\ EngineInit
    /\ faults = 0
    /\ hosts = <<"x", NL>>
    /\ prev_hosts = hosts
    /\ last_domains = <<>>
    /\ applied = FALSE
    /\ runtime = Unobserved
    /\ pem = Unread
    /\ call \in {[op |-> "input", tokens |-> tokens, input |-> MappingsText(tokens)] :
                    tokens \in PortInputs}

ParsePortMapping ==
    /\ call.op = "input"
    /\ call' = [op |-> "parse_port_mapping", tokens |-> call.tokens, input |-> call.input,
                result |-> parse_port_mapping(call.input)]
    /\ UNCHANGED <<engine_vars, hosts, prev_hosts, last_domains, applied>>

ParsePortMappings ==
    /\ call.op = "input"
    /\ call' = [op |-> "parse_port_mappings", tokens |-> call.tokens, input |-> call.input,
                result |-> parse_port_mappings(call.input)]
    /\ UNCHANGED <<engine_vars, hosts, prev_hosts, last_domains, applied>>

PortNext == ParsePortMapping \/ ParsePortMappings

PortSpec == PortInit /\ [][PortNext]_vars

----------------------------------------------------------------------------
(* ContainerInfo::from_container on its own: what it makes of any answer of *)
(* inspect_container, and what one pass does with the descriptor. Ids,      *)
(* names and the port labels are sequences of characters.                   *)

LABEL_DOMAIN == "kz.byte0.autolocalhost.domain"
LABEL_PORTS == "kz.byte0.autolocalhost.ports"
LABEL_SSL_ENABLED == "kz.byte0.autolocalhost.sslEnabled"
LABEL_SSL_PORTS == "kz.byte0.autolocalhost.sslPorts"

\* labels.get(key): Some(value) or None
get(labels, key) == IF key \in DOMAIN labels THEN Some(labels[key]) ELSE None

\* str::trim_start_matches(char)
RECURSIVE trim_start_matches(_, _)
trim_start_matches(s, c) ==
    IF s # <<>> /\ Head(s) = c THEN trim_start_matches(Tail(s), c) ELSE s

\* .map(|v| v == "true").unwrap_or(false)
ssl_enabled(labels) ==
    get(labels, LABEL_SSL_ENABLED) # None /\ get(labels, LABEL_SSL_ENABLED)[1] = "true"

\* the label as a string slice, "" when it is absent, parsed; Err gives the empty Vec
PortsOf(labels, key) ==
    LET str == IF get(labels, key) = None THEN <<>> ELSE get(labels, key)[1]
        parsed == parse_port_mappings(str)
    IN  IF parsed = None THEN <<>> ELSE parsed[1]

\* an extraction in which a port list that does not parse is an error of the whole
from_container_strict(inspected) ==
    IF inspected = None THEN None
    ELSE LET details == inspected[1]
         IN  IF details.id = None THEN None
             ELSE IF details.config = None THEN None
             ELSE IF details.config[1].labels = None THEN None
             ELSE LET labels == details.config[1].labels[1]
                  IN  IF get(labels, LABEL_PORTS) # None
                         /\ parse_port_mappings(get(labels, LABEL_PORTS)[1]) = None
                      THEN None
                      ELSE Some([id |-> details.id[1],
                                 name |-> IF details.name = None THEN details.id[1]
                                          ELSE trim_start_matches(details.name[1], "/"),
                                 is_running |-> /\ details.state # None
                                                /\ details.state[1].running # None
                                                /\ details.state[1].running[1],
                                 domain |-> IF get(labels, LABEL_DOMAIN) = None THEN ""
                                            ELSE get(labels, LABEL_DOMAIN)[1],
                                 ports |-> PortsOf(labels, LABEL_PORTS),
                                 ssl_ports |-> IF ssl_enabled(labels)
                                               THEN PortsOf(labels, LABEL_SSL_PORTS)
                                               ELSE <<>>])

(* from_container as a function of what inspect_container returned: None    *)
(* for its error, Some(details) otherwise. The result is Err (None) or      *)
(* Ok(ContainerInfo).                                                       *)
from_container_details(inspected) ==
    IF inspected = None THEN None
    ELSE LET details == inspected[1]
         IN  IF details.id = None THEN None
             ELSE IF details.config = None THEN None
             ELSE IF details.config[1].labels = None THEN None
             ELSE LET labels == details.config[1].labels[1]
                  IN  Some([id |-> details.id[1],
                            name |-> IF details.name = None THEN details.id[1]
                                     ELSE trim_start_matches(details.name[1], "/"),
                            is_running |-> /\ details.state # None
                                           /\ details.state[1].running # None
                                           /\ details.state[1].running[1],
                            domain |-> IF get(labels, LABEL_DOMAIN) = None THEN ""
                                       ELSE get(labels, LABEL_DOMAIN)[1],
                            ports |-> PortsOf(labels, LABEL_PORTS),
                            ssl_ports |-> IF ssl_enabled(labels)
                                          THEN PortsOf(labels, LABEL_SSL_PORTS)
                                          ELSE <<>>])

\* an Option of each value of the set
OptionOf(S) == {None} \cup {Some(v) : v \in S}

\* label values: a list that parses, one that does not, the empty string
PortsLabels == {<<"8", "0", ":", "8", "0", "8", "0">>, <<"8", "0", ":">>, <<>>}

SslPortsLabels == {<<"4", "4", "3", ":", "8", "4", "4", "3">>, <<"x">>, <<>>}

\* the label maps of the model: each of the four labels present or absent
LabelMaps ==
    {[k \in keys |-> CASE k = LABEL_DOMAIN -> d
                       [] k = LABEL_PORTS -> p
                       [] k = LABEL_SSL_ENABLED -> e
                       [] OTHER -> s] :
        keys \in SUBSET {LABEL_DOMAIN, LABEL_PORTS, LABEL_SSL_ENABLED, LABEL_SSL_PORTS},
        d \in {"a.test", ""}, p \in PortsLabels,
        e \in {"true", "false", "TRUE"}, s \in SslPortsLabels}

\* what inspect_container may return: its error, or details with any field absent
InspectResults ==
    OptionOf({[id |-> id, name |-> name, state |-> state, config |-> config] :
        id \in OptionOf({<<"c", "1">>}),
        name \in OptionOf({<<"/", "c", "1">>}),
        state \in OptionOf({[running |-> r] : r \in OptionOf(BOOLEAN)}),
        config \in OptionOf({[labels |-> l] : l \in OptionOf(LabelMaps)})})

ExtractInit ==
    /\ EngineInit
    /\ faults = 0
    /\ hosts = <<"x", NL>>
    /\ prev_hosts = hosts
    /\ last_domains = <<>>
    /\ applied = FALSE
    /\ runtime = Unobserved
    /\ pem = Unread
    /\ call \in {[op |-> "inspect_container", inspected |-> i] : i \in InspectResults}

\* from_container on the answer of inspect_container
FromContainer ==
    /\ call.op = "inspect_container"
    /\ call' = [op |-> "from_container", inspected |-> call.inspected,
                result |-> from_container_details(call.inspected)]
    /\ UNCHANGED <<engine_vars, hosts, prev_hosts, last_domains, applied>>

(* The loop of update_configuration over a map that holds the descriptor    *)
(* just extracted and nothing else, on empty certificate directories and    *)
(* with no failure of an issuance.                                          *)
UpdateOverExtracted ==
    /\ call.op = "from_container"
    /\ call.result # None
    /\ LET info == call.result[1]
           containers == insert(EmptyMap, info.id, info)
       IN  \E order \in Orders(RunningIds(containers)) :
              call' = [op |-> "update_configuration", inspected |-> call.inspected,
                       info |-> info,
                       loop |-> PassResult(containers, order, files,
                                           [d \in TlsDomains(containers) |-> NoFailure])]
    /\ UNCHANGED <<engine_vars, hosts, prev_hosts, last_domains, applied>>

ExtractNext == FromContainer \/ UpdateOverExtracted

ExtractSpec == ExtractInit /\ [][ExtractNext]_vars

----------------------------------------------------------------------------
(* Properties of the debounce mechanism. *)

(* C1: after a burst of start events less than 5 s apart, each inserting a  *)
(* new container, and with no event after the last one, exactly one pass    *)
(* starts, and the map it reads holds every container of the burst. Stated  *)
(* on states: while the last recorded change is that of a burst and the     *)
(* listener waits for the next event, at most one pass has started since,   *)
(* and a pass at work reads all of the burst.                               *)
C1_BurstOnePass ==
    (burst # {} /\ main_pc = "select") =>
        /\ passes_after <= 1
        /\ (flush_pc = "pass" /\ passes_after = 1 => burst \subseteq DOMAIN shared_containers)

\* a pass of the debounce task reads a map equal to the listener's
Reconciled == flush_pc = "pass" /\ shared_containers = active_containers

(* C2: a change of the listener's map is always followed by a pass that     *)
(* reads the map as it is after the change, unless another event arrives or *)
(* the process is shut down first.                                          *)
C2_EventuallyReconciled ==
    (main_pc \in {"publish", "request"} \/ debounce.pending_update)
        ~> (Reconciled \/ main_pc \in {"dispatch", "done"})

\* a pass of the debounce task is at work on the map the listener published
\* and no request is left behind
C2_Witness ==
    /\ Reconciled
    /\ pass_pc = "proxy"
    /\ ~debounce.pending_update
    /\ main_pc = "select"
    /\ active_containers # EmptyMap

(* C3: two passes, the startup pass included, never start less than 5 s     *)
(* apart: when the debounce task starts a pass, the pass before it started  *)
(* DEBOUNCE_DURATION_SECS ago or earlier.                                   *)
C3_PassesApart ==
    [][(flush_pc = "lock_containers" /\ flush_pc' = "pass")
        => since_pass >= DEBOUNCE_DURATION_SECS]_vars

(* C4: a pass that finds a domain claimed twice stops there and changes     *)
(* nothing: not the hosts file, not the proxy and its configuration, not    *)
(* the certificate files, whatever the order of the containers.             *)
C4_DuplicateChangesNothing ==
    [][(pass_pc = "loop" /\ pass_pc' = "idle")
        => UNCHANGED <<hosts, nginx_conf, proxy, files>>]_vars

----------------------------------------------------------------------------
(* Properties of the event listener. *)

(* C5: a stop, die or destroy event for an id that is not tracked changes   *)
(* nothing: the listener's map, the shared copy and the DebounceState stay  *)
(* as they are and the listener goes back to waiting without a request.     *)
C5_StopUntrackedNoOp ==
    [][(/\ main_pc = "dispatch"
        /\ main_pc' # "dispatch"
        /\ event.action \in {"stop", "die", "destroy"}
        /\ ~contains_key(active_containers, event.id))
        => /\ main_pc' = "select"
           /\ UNCHANGED <<active_containers, shared_containers, debounce>>]_vars

\* the listener holds a stop event for an untracked id while another
\* container is tracked and a request is pending
C5_Witness ==
    /\ main_pc = "dispatch"
    /\ event.action \in {"stop", "die", "destroy"}
    /\ ~contains_key(active_containers, event.id)
    /\ active_containers # EmptyMap
    /\ debounce.pending_update

(* C6: a start event for a tracked id is ignored, without an extraction and *)
(* with the map, the shared copy and the DebounceState as they were; a      *)
(* start event for an untracked id whose extraction succeeds adds exactly   *)
(* the descriptor of that id to the map.                                    *)
C6_StartArm ==
    /\ [][(/\ main_pc = "dispatch"
           /\ main_pc' # "dispatch"
           /\ event.action = "start")
           => IF contains_key(active_containers, event.id)
              THEN /\ main_pc' = "select"
                   /\ UNCHANGED <<active_containers, shared_containers, debounce>>
              ELSE /\ main_pc' = "from_container"
                   /\ UNCHANGED <<active_containers, shared_containers, debounce>>]_vars
    /\ [][(main_pc = "from_container" /\ main_pc' = "publish")
           => /\ ~contains_key(active_containers, event.id)
              /\ DOMAIN active_containers' = DOMAIN active_containers \cup {event.id}
              /\ active_containers'[event.id].id = event.id
              /\ \A id \in DOMAIN active_containers :
                    active_containers'[id] = active_containers[id]]_vars

\* a start event has inserted a container, its change was recorded, and a
\* second start event for the same id has arrived
C6_Witness ==
    /\ main_pc = "dispatch"
    /\ event.action = "start"
    /\ contains_key(active_containers, event.id)
    /\ event.id \in burst

----------------------------------------------------------------------------
(* Properties of the hosts file manager. *)

\* the lines of a text that hold more than whitespace
NonBlankLines(content) == SelectSeq(Lines(content), LAMBDA l : ~IsBlank(l))

HasMarker(l) == block_start \in Range(l) \/ block_end \in Range(l)

\* each marker of the text is a line of its own
MarkersAlone(content) == \A l \in Range(Lines(content)) : HasMarker(l) => Len(l) = 1

(* The lines of a text that are outside its managed block: those before the *)
(* line of the BEGIN marker and those after the line of the END marker.     *)
OutsideLines(content) ==
    LET ls == Lines(content)
    IN  IF ~is_match(content) THEN NonBlankLines(content)
        ELSE LET b == Min({i \in DOMAIN ls : block_start \in Range(ls[i])})
                 e == Min({i \in DOMAIN ls : i >= b /\ block_end \in Range(ls[i])})
             IN  SelectSeq(SubSeq(ls, 1, b - 1) \o SubSeq(ls, e + 1, Len(ls)),
                           LAMBDA l : ~IsBlank(l))

(* C7: updating twice with the same domain list gives the same bytes as     *)
(* updating once: the file an update has written is a fixed point of the    *)
(* update with that list.                                                   *)
C7_UpdateIdempotent ==
    applied => update_block_in_content(hosts, FilterLocalhost(last_domains)) = hosts

(* C8: an update with an empty list on a file that holds a block removes    *)
(* the block, and every line outside the block is still there afterwards,   *)
(* as a line of its own and in the same order.                              *)
C8_EmptyListKeepsOutside ==
    (/\ applied
     /\ FilterLocalhost(last_domains) = <<>>
     /\ is_match(prev_hosts)
     /\ MarkersAlone(prev_hosts))
        => /\ ~is_match(hosts)
           /\ NonBlankLines(hosts) = OutsideLines(prev_hosts)

(* C9: a file that starts with at most one block holds, after any updates,  *)
(* no block or one: at most one BEGIN marker, at most one END marker, BEGIN *)
(* before END; and it holds a block exactly when the last list, without     *)
(* localhost, was not empty.                                                *)
C9_AtMostOneBlock ==
    LET begins == Positions(hosts, block_start)
        ends == Positions(hosts, block_end)
    IN  /\ Cardinality(begins) <= 1
        /\ Cardinality(ends) = Cardinality(begins)
        /\ \A b \in begins, e \in ends : b < e
        /\ applied => (is_match(hosts) <=> FilterLocalhost(last_domains) # <<>>)

\* a block was replaced by the block of a list that named localhost too
C9_Witness ==
    /\ applied
    /\ is_match(prev_hosts)
    /\ is_match(hosts)
    /\ FilterLocalhost(last_domains) # last_domains
    /\ hosts # prev_hosts

(* C10: an update with a list that is not empty keeps every line outside    *)
(* the block, each as a line of its own and in the same order, and the      *)
(* marker lines of the result hold the markers only.                        *)
C10_UpdateKeepsOutside ==
    (/\ applied
     /\ FilterLocalhost(last_domains) # <<>>
     /\ MarkersAlone(prev_hosts))
        => /\ OutsideLines(hosts) = OutsideLines(prev_hosts)
           /\ MarkersAlone(hosts)

----------------------------------------------------------------------------
(* Properties of certificate issuance. *)

----------------------------------------------------------------------------
(* Properties of the port mapping parser. *)

\* the component is the decimal notation of a port number
PlainPort(c) == c.value \in 1..U16_MAX /\ c.text = ToDecimal(c.value)

\* the component denotes a port number
ComponentOk(c) == c.value \in 1..U16_MAX

\* the token is "N" or "E:I" with port numbers
TokenOk(token) == Len(token) \in {1, 2} /\ \A i \in DOMAIN token : ComponentOk(token[i])

\* the pair the token denotes
TokenPair(token) == Port(token[1].value, token[Len(token)].value)

(* C12: parsing the token "N", N in 1..65535 in decimal notation, gives the *)
(* pair with external = internal = N, and parsing "E:I", E and I in         *)
(* 1..65535, gives external = E and internal = I.                           *)
C12_TokenParsesToPair ==
    (/\ call.op = "parse_port_mapping"
     /\ Len(call.tokens) = 1
     /\ Len(call.tokens[1]) \in {1, 2}
     /\ \A i \in DOMAIN call.tokens[1] : PlainPort(call.tokens[1][i]))
        => call.result = Some(TokenPair(call.tokens[1]))

\* "65535:1" has been parsed
C12_Witness ==
    /\ call.op = "parse_port_mapping"
    /\ call.input = <<"6", "5", "5", "3", "5", ":", "1">>
    /\ call.result # None

(* C13: parsing a mappings string gives Ok of the empty list for the empty  *)
(* string; Err, and no list at all, when a token has a component that is    *)
(* empty, no number, 0 or above 65535, or has more than one colon; else Ok  *)
(* of the list with the pair of each token, in the order of the tokens.     *)
C13_ListParsesWhole ==
    call.op = "parse_port_mappings" =>
        IF call.input = <<>> THEN call.result = Some(<<>>)
        ELSE IF \E i \in DOMAIN call.tokens : ~TokenOk(call.tokens[i])
        THEN call.result = None
        ELSE call.result = Some([i \in DOMAIN call.tokens |-> TokenPair(call.tokens[i])])

\* a list with a good token before a bad one has been parsed
C13_Witness ==
    /\ call.op = "parse_port_mappings"
    /\ Len(call.tokens) = 2
    /\ TokenOk(call.tokens[1])
    /\ ~TokenOk(call.tokens[2])
    /\ call.result = None

----------------------------------------------------------------------------
(* Properties of a reconciliation pass. *)

\* the calls of the hosts file manager, the config generator and the container
\* manager in the list, by name
RECURSIVE Collaborators(_)
Collaborators(log) ==
    IF log = <<>> THEN <<>>
    ELSE (IF Head(log).step = "cert" THEN <<>> ELSE <<Head(log).step>>)
             \o Collaborators(Tail(log))

\* the domains of the issuances in the list
RECURSIVE IssuedFor(_)
IssuedFor(log) ==
    IF log = <<>> THEN <<>>
    ELSE (IF Head(log).step = "cert" THEN <<Head(log).subject>> ELSE <<>>)
             \o IssuedFor(Tail(log))

(* C14: a pass that the duplicate check does not abort calls the hosts file *)
(* manager, then the config generator, then the container manager, each     *)
(* once, whatever the calls before returned; and the call of the container  *)
(* manager, whatever it and the others returned, ends the pass with the     *)
(* listener alive and the debounce task back in its sleep loop.             *)
C14_CollaboratorsInOrder ==
    [][/\ (pass_pc = "loop" /\ pass_pc' # "idle") =>
                pass_pc' = "hosts" /\ Collaborators(pass_log') = <<>>
       /\ pass_pc = "hosts" =>
                pass_pc' = "config" /\ Collaborators(pass_log') = <<"hosts">>
       /\ pass_pc = "config" =>
                pass_pc' = "proxy" /\ Collaborators(pass_log') = <<"hosts", "config">>
       /\ pass_pc = "proxy" =>
                pass_pc' = "idle" /\ main_pc' = "select" /\ flush_pc' = "sleep"]_vars

\* a pass has come to the container manager although the hosts file manager failed
C14_Witness ==
    /\ pass_pc = "proxy"
    /\ \E i \in DOMAIN pass_log : pass_log[i].step = "hosts" /\ ~pass_log[i].ok

\* the domains update_configuration asks a certificate for, over the containers
\* in Vec order: the domain of each container, if it has one, once per TLS port
RECURSIVE EligibleDomains(_)
EligibleDomains(running) ==
    IF running = <<>> THEN <<>>
    ELSE (IF Head(running).domain = "" THEN <<>>
          ELSE [i \in DOMAIN Head(running).ssl_ports |-> Head(running).domain])
             \o EligibleDomains(Tail(running))

\* two running containers of the map have the same domain
HasDuplicate(containers) ==
    \E i, j \in RunningIds(containers) : i # j /\ containers[i].domain = containers[j].domain

(* C15: a failed certificate issuance, at the CA or at the leaf files, ends *)
(* nothing but itself: the loop of the pass asks a certificate for every    *)
(* eligible domain, the ones after the failure too; only a duplicate domain *)
(* ends the pass in the loop; and a pass with a failed issuance goes on to  *)
(* the hosts file manager, the config generator and the container manager.  *)
C15_CertFailureBlocksNothing ==
    [][/\ (pass_pc = "loop" /\ pass_pc' = "hosts") =>
                IssuedFor(pass_log') = EligibleDomains(RunningContainers(Snapshot, pass_order'))
       /\ (pass_pc = "loop" /\ pass_pc' = "idle") => HasDuplicate(Snapshot)
       /\ (Failures(pass_log) > 0 /\ pass_pc = "hosts") => pass_pc' = "config"
       /\ (Failures(pass_log) > 0 /\ pass_pc = "config") => pass_pc' = "proxy"
       /\ (Failures(pass_log) > 0 /\ pass_pc = "proxy") =>
                pass_pc' = "idle" /\ proxy' \in {create_and_start(proxy, PassPorts, o) :
                                                    o \in ProxyOutcomes}]_vars

\* a pass is at the hosts file manager after two issuances, the first of them failed
C15_Witness ==
    /\ pass_pc = "hosts"
    /\ Len(pass_log) = 2
    /\ ~pass_log[1].ok
    /\ pass_log[2].ok
    /\ pass_log[1].subject # pass_log[2].subject

(* C16: a pass whose config generator fails, the template being missing or  *)
(* unparseable, is aborted there and has changed nothing: the hosts file,   *)
(* nginx.conf and the proxy container are as the pass found them. In        *)
(* PassSpec prev_hosts is the hosts file as the pass found it; the proxy    *)
(* and nginx.conf are not touched before the config generator is called.    *)
C16_TemplateFailureAbortsPass ==
    [][(pass_pc = "config" /\ pass_pc' # "config" /\ ~pass_log'[Len(pass_log')].ok) =>
            /\ pass_pc' = "idle"
            /\ hosts' = prev_hosts
            /\ nginx_conf' = nginx_conf
            /\ proxy' = proxy]_vars

----------------------------------------------------------------------------
(* Properties of the engine's tasks. *)

(* C17: a pass that the duplicate check aborts, the startup pass or a later *)
(* one, ends with the engine running: the listener is alive and the         *)
(* debounce task is in its sleep loop, from where the next settled change   *)
(* starts the next pass.                                                    *)
C17_DuplicateAbortKeepsEngine ==
    [][(pass_pc = "loop" /\ pass_pc' = "idle") => (Alive' /\ flush_pc' = "sleep")]_vars

(* C18: while a pass is at work (certificate issuance, file writes, calls   *)
(* of the runtime) the lock of the shared map is not held, so a listener    *)
(* that has changed its map can store it in the shared map. Stated on       *)
(* states: the listener is never at the lock of the shared map while the    *)
(* pass holds it.                                                           *)
C18_PassHoldsNoLock ==
    ~(main_pc = "publish" /\ pass_pc # "idle" /\ ContainersLocked)

(* C19: the two places that run update_configuration, the startup of        *)
(* monitor_containers and the debounce task, are never in it together, and  *)
(* a pass is at work only while one of them is in it: the hosts file,       *)
(* nginx.conf and the certificate directories have one writer at a time.    *)
C19_OnePassAtATime ==
    /\ ~(main_pc = "startup_pass" /\ flush_pc = "pass")
    /\ pass_pc # "idle" => (main_pc = "startup_pass" \/ flush_pc = "pass")

\* the debounce task is in the middle of a pass while the listener handles an event
C19_Witness ==
    /\ flush_pc = "pass"
    /\ pass_pc = "config"
    /\ main_pc = "from_container"

(* C20: a pass in flight at shutdown finishes: the process does not end     *)
(* with a pass between two of its steps.                                    *)
C20_ShutdownLetsPassFinish ==
    main_pc = "done" => pass_pc = "idle"

----------------------------------------------------------------------------
(* Shutdown and startup. *)

(* C21: once the shutdown signal has been sent, the listener takes no       *)
(* further event from the stream and the debounce task starts no further    *)
(* pass.                                                                    *)
C21_SignalStopsListenerAndTicker ==
    [][shutdown_sent =>
        /\ ~(main_pc = "select" /\ main_pc' = "dispatch")
        /\ ~(flush_pc = "lock_containers" /\ flush_pc' = "pass")]_vars

(* C22: an issuance that fails leaves no output half written: of the three  *)
(* leaf files of its domain it has written all or none, and of the CA pair  *)
(* it has written both or none.                                             *)
C22_FailedIssuanceWritesWholeOutputs ==
    (call.op = "generate_certificates" /\ ~call.ok) =>
        /\ call.written \cap DomainCertFiles(call.domain) \in {{}, DomainCertFiles(call.domain)}
        /\ call.written \cap CA_FILES \in {{}, CA_FILES}

\* the map the startup scan must leave: the listed ids whose extraction returned Ok
Extracted(listed, results) ==
    [id \in {i \in listed : results[i] # None} |-> results[id][1]]

(* C23: the startup scan tracks every listed container whose extraction    *)
(* succeeds, running or stopped, and no other; it is followed by one pass,  *)
(* whatever the inventory; until that pass has run through its last step no *)
(* event is taken from the stream and the debounce task does not exist,     *)
(* and both begin as it returns.                                            *)
C23_StartupScanPassSubscribe ==
    /\ [](main_pc \in {"scan", "startup_pass"} =>
            /\ flush_pc = "unspawned"
            /\ event = NoEvent
            /\ main_pc = "startup_pass" =>
                  /\ call.op = "list_containers"
                  /\ active_containers = Extracted(call.listed, call.results)
                  /\ pass_pc # "idle")
    /\ [][/\ (main_pc = "scan" /\ main_pc' \notin {"scan", "failed"}) =>
                (main_pc' = "startup_pass" /\ pass_pc' = "loop")
          /\ (main_pc = "startup_pass" /\ pass_pc # "loop") => pass_pc' # "loop"
          /\ (main_pc = "startup_pass" /\ main_pc' = "select") =>
                (pass_pc = "proxy" /\ pass_pc' = "idle" /\ flush_pc' = "sleep")
          /\ (main_pc # "select" /\ main_pc' = "select" /\ flush_pc = "unspawned") =>
                main_pc = "startup_pass"]_vars

\* the startup pass runs over an inventory of a stopped container and of one
\* whose extraction failed, and is at its last step
C23_Witness ==
    /\ main_pc = "startup_pass"
    /\ pass_pc = "proxy"
    /\ call.op = "list_containers"
    /\ call.listed = Ids
    /\ \E id \in Ids : id \in DOMAIN active_containers /\ ~active_containers[id].is_running
    /\ \E id \in Ids : call.results[id] = None

(* C24: a runtime that cannot be reached does not keep connect_docker       *)
(* trying for ever: either an attempt reaches the runtime and connect_docker *)
(* returns, or after some attempts the process ends with an error.          *)
C24_ConnectGivesUp ==
    <>(connecting.pc = "returned" \/ main_pc = "failed")

----------------------------------------------------------------------------
(* Properties of the proxy configuration and of the proxy container. *)

\* the port mappings of the descriptors: which descriptor, TLS or plain, which entry
Mappings(containers) ==
    UNION {{<<i, FALSE, j>> : j \in DOMAIN containers[i].ports}
                \cup {<<i, TRUE, j>> : j \in DOMAIN containers[i].ssl_ports} :
           i \in DOMAIN containers}

\* the route a mapping asks for: its external port to name:internal
Route(containers, m) ==
    LET container == containers[m[1]]
        port == IF m[2] THEN container.ssl_ports[m[3]] ELSE container.ports[m[3]]
    IN  [listen |-> port.external, ssl |-> m[2], server_name |-> container.domain,
         upstream |-> container.name, upstream_port |-> port.internal]

\* the configuration has each route as often as mappings ask for it, and no other
RoutesExactly(conf, containers) ==
    \A r \in Range(conf) \cup {Route(containers, m) : m \in Mappings(containers)} :
        Cardinality({k \in DOMAIN conf : conf[k] = r})
            = Cardinality({m \in Mappings(containers) : Route(containers, m) = r})

(* C25: a generate_config that returns Ok has written a configuration with  *)
(* one stanza per plain mapping and one per TLS mapping of the descriptors  *)
(* it was given, each from the mapping's external port to name:internal,    *)
(* and none besides; for no descriptors that is a configuration without     *)
(* stanzas; and it returns Ok whenever the file system does not fail.       *)
C25_OneStanzaPerMapping ==
    [][(pass_pc = "config" /\ pass_pc' = "proxy") =>
        LET containers == RunningContainers(Snapshot, pass_order)
            done == pass_log'[Len(pass_log')]
        IN  /\ done.step = "config"
            /\ faults = 0 => done.ok
            /\ done.ok => RoutesExactly(nginx_conf', containers)
            /\ (done.ok /\ containers = <<>>) => nginx_conf' = <<>>]_vars

\* the configuration for the one descriptor c1 with the plain mapping 80:8080
C25_Witness ==
    /\ pass_pc = "proxy"
    /\ pass_log[Len(pass_log)] = Invoked("config", "", TRUE)
    /\ pass_order = <<"c1">>
    /\ nginx_conf = <<[listen |-> 80, ssl |-> FALSE, server_name |-> "a.test",
                       upstream |-> "c1", upstream_port |-> 8080]>>

(* C26: a create_and_start that fails at ensuring the image or at ensuring  *)
(* the network has touched no container, so the proxy that was running      *)
(* runs on; errors of stopping or removing a container that is stopped or   *)
(* gone already do not fail it; after a call that returns Ok there is one   *)
(* managed container, running, bound to the ports of the call.              *)
C26_ProxyStepsInOrder ==
    call.op = "create_and_start" =>
        /\ call.outcome \in {"ensure_image_exists", "ensure_network_exists"} =>
                proxy = call.before
        /\ (call.stop_errors /\ call.outcome = "ok") => call.ok
        /\ call.ok => proxy = <<[running |-> TRUE, ports |-> call.ports]>>

\* the external ports of the plain and TLS mappings of the running descriptors
RequiredPorts(containers) ==
    UNION {{containers[id].ports[j].external : j \in DOMAIN containers[id].ports}
                \cup {containers[id].ssl_ports[j].external :
                        j \in DOMAIN containers[id].ssl_ports} :
           id \in {i \in DOMAIN containers : containers[i].is_running}}

(* C27: the proxy step of a pass leaves a fresh container only with exactly *)
(* the external ports of the plain and TLS mappings of the descriptors of   *)
(* its map that are running, and when nothing fails it leaves that          *)
(* container running.                                                       *)
C27_ProxyBoundToRequiredPorts ==
    [][(pass_pc = "proxy" /\ pass_pc' = "idle") =>
        /\ proxy' \notin {proxy, NoProxy} => proxy'[1].ports = RequiredPorts(Snapshot)
        /\ faults = 0 =>
              proxy' = <<[running |-> TRUE, ports |-> RequiredPorts(Snapshot)]>>]_vars

\* the startup pass has bound the ports of the running c1 and not the port of
\* the stopped c2
C27_Witness ==
    /\ main_pc = "select"
    /\ pass_pc = "idle"
    /\ DOMAIN shared_containers = Ids
    /\ shared_containers["c1"].is_running
    /\ ~shared_containers["c2"].is_running
    /\ proxy = <<[running |-> TRUE, ports |-> {80, 443}]>>

----------------------------------------------------------------------------
(* Properties of the engine from the startup scan on. *)

(* C28: c1 is tracked as not running by the startup scan (the event loop   *)
(* never extracts it) and the service is not shut down. When the listener  *)
(* has taken a start event for c1, a later pass has c1 among its running   *)
(* containers.                                                             *)
C28_StoppedThenStartedIsRouted ==
    \/ <>(main_pc = "done")
    \/ <>(main_pc = "from_container" /\ event.id = "c1")
    \/ (/\ main_pc = "dispatch"
        /\ event = [action |-> "start", id |-> "c1"]
        /\ contains_key(active_containers, "c1")
        /\ ~active_containers["c1"].is_running)
            ~> (pass_pc # "idle" /\ "c1" \in Range(pass_order))

(* C29: a container that the startup scan did not list and that runs while *)
(* the startup pass is at work (it was started after the inventory query    *)
(* and before the event stream exists) comes to be among the running        *)
(* containers of a pass, unless it stops before.                            *)
C29_StartedBeforeSubscribeIsRouted ==
    (/\ main_pc = "startup_pass"
     /\ runtime.state["c1"] = "running"
     /\ ~contains_key(active_containers, "c1"))
        ~> \/ runtime.state["c1"] # "running"
           \/ pass_pc # "idle" /\ "c1" \in Range(pass_order)

(* C30: Apart from the startup pass, a pass is started only by the debounce
   task, and the task decides to start it only in a state where the debounce
   state is pending and its recorded request is at least DEBOUNCE_DURATION_SECS
   old; that step clears pending_update and last_update_request, and the map
   is locked for the snapshot only afterwards.  The listener never starts a
   pass: its steps leave the pass and the debounce task where they are, and
   the request it records after a change is last_update_request = now with
   pending_update = TRUE. *)
C30_PassOnlyByDebounceFlush ==
    [][/\ (pass_pc = "idle" /\ pass_pc' # "idle")
              => \/ main_pc = "scan"
                 \/ flush_pc = "lock_containers" /\ flush_pc' = "pass"
       /\ (flush_pc # "lock_containers" /\ flush_pc' = "lock_containers")
              => /\ debounce.pending_update
                 /\ debounce.last_update_request # None
                 /\ debounce.last_update_request[1] >= DEBOUNCE_DURATION_SECS
                 /\ ~debounce'.pending_update
                 /\ debounce'.last_update_request = None
                 /\ pass_pc = "idle" /\ pass_pc' = "idle"
       /\ (flush_pc # "pass" /\ flush_pc' = "pass") => flush_pc = "lock_containers"
       /\ (main_pc \in {"select", "dispatch", "from_container", "publish", "request"}
                /\ main_pc' # main_pc)
              => UNCHANGED <<pass_pc, flush_pc>>
       /\ (main_pc = "request" /\ main_pc' # "request")
              => /\ debounce'.pending_update
                 /\ debounce'.last_update_request = Some(0)
       /\ (main_pc \in {"select", "dispatch", "from_container", "publish"}
                /\ main_pc' # main_pc)
              => UNCHANGED debounce]_vars

\* the debounce task has flushed a request that an event recorded, and its pass runs
C30_Witness ==
    /\ flush_pc = "pass"
    /\ pass_pc = "loop"
    /\ main_pc = "select"
    /\ passes_after = 1
    /\ ~debounce.pending_update
    /\ debounce.last_update_request = None

(* C31: an event that changes the listener's map while a pass of the        *)
(* debounce task is at work starts no second pass and does not change what  *)
(* the pass at work reads or where it stands; the change waits for the      *)
(* lock of the shared map, and it is always followed by a pass that reads   *)
(* the map as it is after the change, unless another event arrives or the   *)
(* process is shut down first. The request is recorded with the change      *)
(* already in the shared map.                                               *)
C31_ChangeDuringPassIsReflected ==
    /\ [][(flush_pc = "pass" /\ main_pc' # main_pc)
            => UNCHANGED <<pass_pc, pass_order, flush_pc, shared_containers>>]_vars
    /\ [][(main_pc = "publish" /\ main_pc' = "request")
            => shared_containers' = active_containers]_vars
    /\ (flush_pc = "pass" /\ main_pc = "publish" /\ active_containers # shared_containers)
            ~> (Reconciled \/ main_pc \in {"dispatch", "done"})

\* the listener has removed or inserted a container while a pass is at work
\* on the map as it was before
C31_Witness ==
    /\ flush_pc = "pass"
    /\ pass_pc = "config"
    /\ main_pc = "publish"
    /\ active_containers # shared_containers

\* the actions of the "stop" | "die" | "destroy" arm
StopActions == {"stop", "die", "destroy"}

(* C32: a stop, die or destroy event for a tracked id removes the entry of  *)
(* the id from the listener's map in the step that handles the event, all   *)
(* other entries staying as they are, and goes on to publish the map and to *)
(* record a request. Once the event is processed (the listener waits for    *)
(* the next event, or is at the match of the next one, or extracts) the     *)
(* shared map every later pass reads is equal to the listener's map: the id *)
(* is in neither. A later start event for the id finds it untracked and     *)
(* goes to extraction, and the entry inserted is the descriptor that this   *)
(* extraction returned.                                                     *)
C32_StopEvictsDescriptor ==
    /\ [][(/\ main_pc = "dispatch"
           /\ main_pc' # "dispatch"
           /\ event.action \in StopActions
           /\ contains_key(active_containers, event.id))
            => /\ ~contains_key(active_containers', event.id)
               /\ \A i \in DOMAIN active_containers \ {event.id} :
                    /\ contains_key(active_containers', i)
                    /\ active_containers'[i] = active_containers[i]
               /\ main_pc' = "publish"]_vars
    /\ [][(main_pc = "publish" /\ main_pc' # "publish")
            => main_pc' = "request" /\ shared_containers' = active_containers]_vars
    /\ [][(main_pc = "request" /\ main_pc' # "request")
            => debounce'.pending_update /\ main_pc' = "select"]_vars
    /\ [](main_pc \in {"select", "dispatch", "from_container"}
            => shared_containers = active_containers)
    /\ [][(/\ main_pc = "dispatch"
           /\ main_pc' # "dispatch"
           /\ event.action = "start"
           /\ ~contains_key(active_containers, event.id))
            => main_pc' = "from_container" /\ event' = event]_vars
    /\ [][(main_pc = "from_container" /\ main_pc' = "publish")
            => \E r \in BOOLEAN :
                   active_containers' =
                       insert(active_containers, event.id, ContainerInfo(event.id, r))]_vars

\* the entry of a tracked container has gone from the listener's map with its
\* stop event; the shared map still holds it until the listener publishes
C32_Witness ==
    /\ main_pc = "publish"
    /\ event.action \in StopActions
    /\ ~contains_key(active_containers, event.id)
    /\ contains_key(shared_containers, event.id)

\* the order of String on the domains of the model
DomainRank(domain) == CASE domain = "" -> 0 [] domain = "a.test" -> 1 [] OTHER -> 2

(* C33: the domain list a pass hands to update_managed_block is sorted, has *)
(* no domain twice and holds exactly the non-empty domains of the running   *)
(* containers of the map the pass reads.                                    *)
C33_HostnameListSortedExact ==
    pass_pc = "hosts" =>
        /\ \A i, j \in DOMAIN PassDomains :
                i < j => DomainRank(PassDomains[i]) < DomainRank(PassDomains[j])
        /\ Range(PassDomains) = {Snapshot[id].domain : id \in RunningIds(Snapshot)} \ {""}

----------------------------------------------------------------------------
(* Properties of the extraction. *)

\* the labels that inspect_container returned in the call, if it returned any
LabelsOf(inspected) == inspected[1].config[1].labels[1]

(* C34: a pass over a container asks for a certificate of its domain when   *)
(* the container runs, is labelled sslEnabled = "true" and has a non-empty  *)
(* domain, whatever its sslPorts label holds, and it asks for none when the *)
(* domain is empty or the container does not run.                           *)
C34_IssuanceForTlsEnabled ==
    (call.op = "update_configuration" /\ ~call.loop.err) =>
        LET requested == {call.loop.issued[i].subject : i \in DOMAIN call.loop.issued}
        IN  /\ (/\ call.info.is_running
                /\ ssl_enabled(LabelsOf(call.inspected))
                /\ call.info.domain # "") => call.info.domain \in requested
            /\ (call.info.domain = "" \/ ~call.info.is_running) => requested = {}

\* inspect_container returned details with an id and a label map
HasLabelMap(inspected) ==
    /\ inspected # None
    /\ inspected[1].id # None
    /\ inspected[1].config # None
    /\ inspected[1].config[1].labels # None

\* the same answer of inspect_container without the label
WithoutLabel(inspected, key) ==
    LET labels == LabelsOf(inspected)
    IN  Some([inspected[1] EXCEPT !.config =
                Some([labels |-> Some([k \in DOMAIN labels \ {key} |-> labels[k]])])])

\* the label is there and parse_port_mappings returns Err for it
Unparsable(labels, key) ==
    get(labels, key) # None /\ parse_port_mappings(get(labels, key)[1]) = None

(* C35: from_container returns Err exactly when inspect_container failed,   *)
(* the details hold no id, or they hold no label map. Otherwise the         *)
(* descriptor has the empty domain when the domain label is missing; a      *)
(* ports or sslPorts label that does not parse gives the empty list for its *)
(* field and the descriptor is otherwise the one the container would give   *)
(* without that label; and ssl_ports is non-empty only under                *)
(* sslEnabled = "true".                                                     *)
C35_ExtractionDegradesPerField ==
    call.op = "from_container" =>
        /\ call.result = None <=> ~HasLabelMap(call.inspected)
        /\ call.result # None =>
            LET labels == LabelsOf(call.inspected)
                info == call.result[1]
            IN  /\ get(labels, LABEL_DOMAIN) = None => info.domain = ""
                /\ get(labels, LABEL_DOMAIN) # None => info.domain = labels[LABEL_DOMAIN]
                /\ Unparsable(labels, LABEL_PORTS) =>
                    /\ info.ports = <<>>
                    /\ call.result =
                         from_container_details(WithoutLabel(call.inspected, LABEL_PORTS))
                /\ Unparsable(labels, LABEL_SSL_PORTS) =>
                    /\ info.ssl_ports = <<>>
                    /\ call.result =
                         from_container_details(WithoutLabel(call.inspected, LABEL_SSL_PORTS))
                /\ info.ssl_ports # <<>> => ssl_enabled(labels)

\* a descriptor extracted from a container without a domain label whose two
\* port labels do not parse, TLS being enabled
C35_Witness ==
    /\ call.op = "from_container"
    /\ call.result # None
    /\ get(LabelsOf(call.inspected), LABEL_DOMAIN) = None
    /\ Unparsable(LabelsOf(call.inspected), LABEL_PORTS)
    /\ Unparsable(LabelsOf(call.inspected), LABEL_SSL_PORTS)
    /\ ssl_enabled(LabelsOf(call.inspected))
    /\ call.result[1].is_running

(* C36: a failed extraction ends no loop. At startup the container is left  *)
(* out of the map, the others are inserted and the startup pass runs. On a  *)
(* start event the step that gets the error changes neither the listener's  *)
(* map nor the shared map nor the DebounceState, the listener waits for the *)
(* next event, and a start event for an id that is not in the map always    *)
(* goes to extraction.                                                      *)
C36_FailedExtractionAbortsNothing ==
    /\ [](call.op = "list_containers" =>
            /\ main_pc = "startup_pass"
            /\ pass_pc # "idle"
            /\ \A id \in call.listed :
                 IF call.results[id] = None
                 THEN ~contains_key(active_containers, id)
                 ELSE /\ contains_key(active_containers, id)
                      /\ active_containers[id] = call.results[id][1])
    /\ [][(main_pc = "from_container" /\ main_pc' \notin {"from_container", "publish"})
            => /\ main_pc' = "select"
               /\ ~contains_key(active_containers', event.id)
               /\ UNCHANGED <<active_containers, shared_containers, debounce,
                              pass_pc, flush_pc>>]_vars
    /\ [][(/\ main_pc = "dispatch"
           /\ main_pc' # "dispatch"
           /\ event.action = "start"
           /\ ~contains_key(active_containers, event.id))
            => main_pc' = "from_container"]_vars

\* the startup pass at work on a map that lacks a listed container whose
\* extraction failed and holds another one
C36_Witness ==
    /\ call.op = "list_containers"
    /\ \E id \in call.listed : call.results[id] = None
    /\ active_containers # EmptyMap
    /\ main_pc = "startup_pass"
    /\ pass_pc = "hosts"

----------------------------------------------------------------------------
(* Properties of the hosts file manager, continued. *)

\* no blank line after a blank line, no blank line at the end, and a non-empty
\* content ends with one newline
Normalized(content) ==
    LET ls == Lines(content)
    IN  /\ \A i \in 1..(Len(ls) - 1) : ~(IsBlank(ls[i]) /\ IsBlank(ls[i + 1]))
        /\ content # <<>> =>
            /\ ~IsBlank(ls[Len(ls)])
            /\ content[Len(content)] = NL
            /\ Len(content) > 1 => content[Len(content) - 1] # NL

(* C37: the content an update writes is normalized whichever of its four    *)
(* branches produced it, and a block appended to a file that is not empty   *)
(* after normalization stands after that content and exactly one empty      *)
(* line.                                                                    *)
C37_UpdateOutputNormalized ==
    applied =>
        /\ Normalized(hosts)
        /\ (/\ ~is_match(prev_hosts)
            /\ FilterLocalhost(last_domains) # <<>>
            /\ normalize_content(prev_hosts) # <<>>)
            => \E rest \in {Drop(hosts, Len(normalize_content(prev_hosts)) + 1)} :
                 /\ SubSeq(hosts, 1, Len(normalize_content(prev_hosts)) + 1)
                        = normalize_content(prev_hosts) \o <<NL>>
                 /\ Head(rest) = block_start

----------------------------------------------------------------------------
(* Properties of the certificate generator, continued. *)

(* C38: an issuance that finds both CA files writes neither of them, leaves *)
(* the keys in them as they are and signs the leaf it writes with the key   *)
(* of localCA.key; an issuance writes a CA file only when it did not find   *)
(* both; and once both CA files exist they stay, with the same key, through *)
(* every later issuance.                                                    *)
C38_PersistedCaIsReused ==
    /\ [](call.op = "generate_certificates" =>
            /\ CA_FILES \subseteq call.before =>
                /\ call.written \cap CA_FILES = {}
                /\ pem.ca_key = call.keys.ca_key
                /\ pem.ca_crt = call.keys.ca_crt
                /\ <<call.domain, "crt">> \in call.written
                      => pem.signer[call.domain] = call.keys.ca_key
            /\ call.written \cap CA_FILES # {} => ~(CA_FILES \subseteq call.before))
    /\ [][CA_FILES \subseteq files =>
            /\ CA_FILES \subseteq files'
            /\ pem'.ca_key = pem.ca_key
            /\ \A d \in CertDomains :
                 pem'.signer[d] # pem.signer[d] => pem'.signer[d] = pem.ca_key]_vars

\* a CA created and persisted in this run has signed the leaf of a later
\* issuance, for the other domain, that found it on disk
C38_Witness ==
    /\ call.op = "generate_certificates"
    /\ call.ok
    /\ CA_FILES \subseteq call.before
    /\ call.keys.ca_key = "created"
    /\ call.keys.signer[call.domain] = "none"
    /\ <<call.domain, "crt">> \in call.written
    /\ pem.signer = [d \in CertDomains |-> "created"]

----------------------------------------------------------------------------
(* Properties of the two mutexes. *)

\* the task stands at a lock().await
ListenerWaits == main_pc \in {"publish", "request"}

FlushWaits == flush_pc = "lock_containers" \/ (flush_pc = "sleep" /\ sleep_left = 0)

(* C39: neither task holds one of the two locks while it waits for a lock,  *)
(* no lock is held by both tasks, and every lock().await of either task is  *)
(* granted in the end.                                                      *)
C39_NoHoldAndWait ==
    /\ [](ListenerWaits => ~(StateHeldByListener \/ ContainersHeldByListener))
    /\ [](FlushWaits => ~(StateHeldByFlush \/ ContainersHeldByFlush))
    /\ [](~(StateHeldByFlush /\ StateHeldByListener))
    /\ [](~(ContainersHeldByFlush /\ ContainersHeldByListener))
    /\ (main_pc = "publish") ~> (main_pc = "store")
    /\ (main_pc = "request") ~> (main_pc = "record")
    /\ (flush_pc = "lock_containers") ~> (flush_pc = "pass")
    /\ (flush_pc = "sleep" /\ sleep_left = 0) ~> (flush_pc = "test")

\* the listener waits for the shared map while the pass of the debounce task
\* holds it
C39_Witness ==
    /\ main_pc = "publish"
    /\ ContainersHeldByFlush
    /\ pass_pc = "hosts"

----------------------------------------------------------------------------
(* Properties of the order of a pass. *)

\* the domains nginx.conf has a TLS stanza for
TlsStanzaDomains(conf) ==
    {conf[i].server_name : i \in {j \in DOMAIN conf : conf[j].ssl /\ conf[j].server_name # ""}}

\* the pass has logged a failed issuance for the domain
IssuanceFailureLogged(log, domain) ==
    \E i \in DOMAIN log : /\ log[i].step = "cert"
                          /\ log[i].subject = domain
                          /\ ~log[i].ok

\* the three leaf files are there, or the pass has logged a failed issuance
CertsOrFailure(conf, fs, log) ==
    \A domain \in TlsStanzaDomains(conf) :
        has_domain_certs(fs, domain) \/ IssuanceFailureLogged(log, domain)

\* the config generator of the pass has returned Ok
ConfigRendered(log) == \E i \in DOMAIN log : log[i].step = "config" /\ log[i].ok

====
